---- MODULE Spec2Model ----
(***************************************************************************)
(* A model of the multi-queue smoltcp fork: the SocketSet registry with    *)
(* per-socket queue affinity (iface/socket_set.rs), the TCP and UDP/DNS    *)
(* ingress dispatch (iface/interface/tcp.rs, udp.rs), the spin mutex       *)
(* (mutex.rs), the loopback and TUN/TAP devices (phy/loopback.rs,          *)
(* phy/tuntap_interface.rs) and the IGMP host state machine                *)
(* (iface/interface/igmp.rs).                                              *)
(*                                                                         *)
(* Rust Option values are sequences of length 0 (None) or 1 (Some(x)).     *)
(* A SocketHandle keeps its 0-based value; slot h is sockets[h + 1].       *)
(***************************************************************************)
EXTENDS Naturals, Integers, Sequences, FiniteSets, TLC

VARIABLES
    sockets,    \* SocketSet.sockets: the sequence of SocketStorage slots
    owned,      \* TRUE: ManagedSlice::Owned (a Vec), FALSE: ManagedSlice::Borrowed
    counter,    \* SocketSet.counter, the AtomicUsize round-robin counter
    panicked,   \* a panic!() was raised by a SocketSet call
    last,       \* history: the call and return value of the last add/remove
    adds,       \* history: the number of successful add calls so far
    given,      \* history: per handle, the socket its holder passed to add
    th,         \* per thread: position in process_tcp/process_udp/server loop
    lock,       \* Mutex.lock, the AtomicBool of the spin mutex
    inner,      \* Mutex.inner, the value behind the UnsafeCell
    mth,        \* per thread: position in Mutex::try_lock / lock / guard drop
    queue,      \* Loopback.queue: per queue the VecDeque of frames
    qlock,      \* Loopback.queue: per queue the state of its std Mutex
    lth,        \* per thread: position in Loopback::receive / transmit / consume
    sent,       \* history: the number of frames committed to the loopback
    committed,  \* history: per queue, the frames TxToken::consume pushed, in order
    delivered,  \* history: per queue, the frames receive returned in a token pair
    lower,      \* TunTapInterface.lower: per queue the std Mutex of its descriptor
    tth,        \* per thread: the TUN/TAP tokens it holds and its last return value
    wire,       \* history: the queue of each frame a descriptor accepted, in order
    txlog,      \* history: the last device call, its inputs and its outcome
    groups,     \* InterfaceInner.ipv4_multicast_groups, in iteration order
    igmp_report_state,  \* InterfaceInner.igmp_report_state (behind its mutex)
    igmp_lock,  \* the holder of the igmp_report_state mutex
    frag,       \* per queue, the holder of the fragmenter's guard
    ith,        \* per thread: position in igmp_egress and its return value
    now,        \* the current time
    emitted,    \* history: IGMP packets sent since the last accepted query
                \* or join/leave call
    ilast       \* history: the last join/leave/process_igmp call

setvars == <<sockets, owned, counter, panicked>>
histvars == <<last, adds, given>>
mutexvars == <<lock, inner, mth>>
loopvars == <<queue, qlock, lth, sent, committed, delivered>>
tunvars == <<lower, tth, wire>>
igmpvars == <<groups, igmp_report_state, igmp_lock, frag, ith, now, emitted, ilast>>
vars == <<sockets, owned, counter, panicked, last, adds, given, th,
          lock, inner, mth, queue, qlock, lth, sent, committed, delivered,
          lower, tth, wire, txlog,
          groups, igmp_report_state, igmp_lock, frag, ith, now, emitted, ilast>>

----------------------------------------------------------------------------
(* Bounds of the model and constants of the program.                       *)

QUEUE_COUNT == 2        \* config::QUEUE_COUNT
UsizeBits == 2          \* width of usize in the model (the counter wraps at 2^UsizeBits)
MaxSlots == 2           \* longest SocketSet storage explored
MaxAdds == 5            \* most add calls counted by the history variable adds
NumMutexThreads == 3    \* threads contending for one spin Mutex
MaxFrames == 2          \* most frames committed to a device
MaxNow == 2             \* last instant reached by single ticks, and last
                        \* instant at which a query is fed in
IFACE_MAX_MULTICAST_GROUP_COUNT == 2    \* capacity of ipv4_multicast_groups
IGMP_V1_INTERVAL == 100000              \* Duration::from_millis(100), in microseconds

UsizeMod == 2 ^ UsizeBits
Queues == 0 .. (QUEUE_COUNT - 1)
\* max_resp_time of the queries fed in (microseconds)
MaxRespTimes == {0, 5}
\* One worker thread per device queue, named by its queue id (server(id)).
Threads == Queues

None == << >>
Some(x) == << x >>
IsSome(o) == o # << >>
Unwrap(o) == o[1]

----------------------------------------------------------------------------
(* Sockets.  The transport state machines live outside the dispatch code;  *)
(* a socket is its protocol variant, whether it currently accepts the      *)
(* packet under dispatch, and a tag standing for the rest of its state.    *)

Protos == {"tcp", "udp", "dns"}
Tags == 0 .. (MaxAdds - 1)
Socket(proto, open, tag) == [proto |-> proto, open |-> open, tag |-> tag]

Meta(handle) == [handle |-> handle]

\* struct Item { meta, queue_id, socket }; readers/writers is the state of
\* the RwLock around socket.
Item(handle, queue_id, socket) ==
    [meta |-> Meta(handle), queue_id |-> queue_id, socket |-> socket,
     readers |-> {}, writers |-> {}]

EMPTY == None

Slot(S, h) == S[h + 1]
Live(S) == {h \in 0 .. (Len(S) - 1) : IsSome(Slot(S, h))}
ItemAt(S, h) == Unwrap(Slot(S, h))

\* fn put(index, slot, socket, queue_id) -> SocketHandle, the slot written
\* in place; the handle returned is index.
put(S, index, socket, queue_id) ==
    [S EXCEPT ![index + 1] = Some(Item(index, queue_id, socket))]

\* The scan taking the last empty slot instead of the first.
FirstEmpty_last(S) ==
    LET E == {i \in 0 .. (Len(S) - 1) : ~IsSome(Slot(S, i))}
    IN  IF E = {} THEN None
        ELSE Some(CHOOSE i \in E : \A j \in E : i >= j)

\* The first slot with inner.is_none() in iteration order, as Option<index>.
FirstEmpty(S) ==
    LET E == {i \in 0 .. (Len(S) - 1) : ~IsSome(Slot(S, i))}
    IN  IF E = {} THEN None
        ELSE Some(CHOOSE i \in E : \A j \in E : i <= j)

\* counter.fetch_add(1, Relaxed): the new value, wrapping at the usize width.
fetch_add(c) == (c + 1) % UsizeMod

\* add with the queue taken from the slot index instead of the counter.
addResult_by_index(S, c, own, socket) ==
    LET e == FirstEmpty(S) IN
    IF IsSome(e)
    THEN [sockets |-> put(S, Unwrap(e), socket, Unwrap(e) % QUEUE_COUNT),
          counter |-> fetch_add(c), handle |-> Unwrap(e), panic |-> FALSE]
    ELSE IF ~own
    THEN [sockets |-> S, counter |-> c, handle |-> 0, panic |-> TRUE]
    ELSE [sockets |-> put(Append(S, EMPTY), Len(S), socket, Len(S) % QUEUE_COUNT),
          counter |-> fetch_add(c), handle |-> Len(S), panic |-> FALSE]

\* add without the reduction modulo QUEUE_COUNT.
addResult_no_mod(S, c, own, socket) ==
    LET e == FirstEmpty(S) IN
    IF IsSome(e)
    THEN [sockets |-> put(S, Unwrap(e), socket, c),
          counter |-> fetch_add(c), handle |-> Unwrap(e), panic |-> FALSE]
    ELSE IF ~own
    THEN [sockets |-> S, counter |-> c, handle |-> 0, panic |-> TRUE]
    ELSE [sockets |-> put(Append(S, EMPTY), Len(S), socket, c),
          counter |-> fetch_add(c), handle |-> Len(S), panic |-> FALSE]

\* SocketSet::add as a function of the set: the set after the call, the
\* handle returned, and whether the call panicked.
addResult(S, c, own, socket) ==
    LET e == FirstEmpty(S) IN
    IF IsSome(e)
    THEN [sockets |-> put(S, Unwrap(e), socket, c % QUEUE_COUNT),
          counter |-> fetch_add(c), handle |-> Unwrap(e), panic |-> FALSE]
    ELSE IF ~own
    THEN [sockets |-> S, counter |-> c, handle |-> 0, panic |-> TRUE]
    ELSE [sockets |-> put(Append(S, EMPTY), Len(S), socket, c % QUEUE_COUNT),
          counter |-> fetch_add(c), handle |-> Len(S), panic |-> FALSE]

\* remove reading the slot (as_ref) instead of taking it.
removeResult_no_take(S, handle) ==
    IF handle >= Len(S) \/ ~IsSome(Slot(S, handle))
    THEN [sockets |-> S, socket |-> None, panic |-> TRUE]
    ELSE [sockets |-> S,
          socket |-> Some(ItemAt(S, handle).socket), panic |-> FALSE]

\* SocketSet::remove as a function of the set: the set after the call, the
\* socket returned (socket_into_inner), and whether the call panicked.
removeResult(S, handle) ==
    IF handle >= Len(S) \/ ~IsSome(Slot(S, handle))
    THEN [sockets |-> S, socket |-> None, panic |-> TRUE]
    ELSE [sockets |-> [S EXCEPT ![handle + 1] = None],
          socket |-> Some(ItemAt(S, handle).socket), panic |-> FALSE]

\* A set that hands out &mut self while borrows of it are alive.
Exclusive_while_borrowed == TRUE

\* add and remove take &mut self: no other borrow of the set is alive, so
\* no thread is inside process_tcp, process_udp or the server loop.
Exclusive == \A t \in Threads : th[t].pc = "idle"

add(socket) ==
    /\ ~panicked
    /\ Exclusive
    /\ LET r == addResult(sockets, counter, owned, socket) IN
        /\ r.panic \/ Len(r.sockets) <= MaxSlots
        /\ sockets' = r.sockets
        /\ counter' = r.counter
        /\ panicked' = r.panic
    /\ UNCHANGED <<owned, th>>

remove(handle) ==
    /\ ~panicked
    /\ Exclusive
    /\ LET r == removeResult(sockets, handle) IN
        /\ sockets' = r.sockets
        /\ panicked' = r.panic
    /\ UNCHANGED <<owned, counter, th>>

\* The caller's view of a call: what it passed and what it got back.
NoCall == [op |-> "none", handle |-> 0, socket |-> None]

addCall(socket) ==
    /\ adds < MaxAdds
    /\ add(socket)
    /\ LET r == addResult(sockets, counter, owned, socket) IN
        /\ last' = IF r.panic THEN [NoCall EXCEPT !.op = "add_panic"]
                   ELSE [op |-> "add", handle |-> r.handle, socket |-> Some(socket)]
        /\ adds' = IF r.panic THEN adds ELSE adds + 1
        /\ given' = IF r.panic THEN given
                    ELSE [given EXCEPT ![r.handle] = Some(socket)]

removeCall(handle) ==
    /\ remove(handle)
    /\ LET r == removeResult(sockets, handle) IN
        /\ last' = IF r.panic THEN [NoCall EXCEPT !.op = "remove_panic"]
                   ELSE [op |-> "remove", handle |-> handle, socket |-> r.socket]
        /\ adds' = adds
        /\ given' = IF r.panic THEN given ELSE [given EXCEPT ![handle] = None]

----------------------------------------------------------------------------
(* Ingress dispatch: InterfaceInner::process_tcp and process_udp, one step *)
(* per lock operation or atomic access, and the benchmark's server loop.   *)

\* What a dispatch call was given and what it returned.  kind names the path
\* taken: "none" (no call returned yet), "malformed" (check! failed),
\* "matched" (a socket processed the packet) or "fallback".
NoRet == [kind |-> "none", call |-> "tcp", reply |-> None,
          control |-> "Syn", src_unspec |-> FALSE, dst_unspec |-> FALSE,
          raw |-> FALSE, version |-> 4, len |-> 0]
Idle == [pc |-> "idle", loop |-> "tcp", idx |-> 0, qid |-> 0, ret |-> NoRet]

\* items(): the next slot at or after idx that holds an Item, or Len(S).
\* The iteration taken from the back of the storage.
NextItem_from_end(S, idx) ==
    LET L == {h \in Live(S) : h >= idx}
    IN  IF L = {} THEN Len(S) ELSE CHOOSE h \in L : \A k \in L : h >= k

NextItem(S, idx) ==
    LET L == {h \in Live(S) : h >= idx}
    IN  IF L = {} THEN Len(S) ELSE CHOOSE h \in L : \A k \in L : h <= k

SetItem(S, h, item) == [S EXCEPT ![h + 1] = Some(item)]

\* Some thread is blocked in socket.write() on slot h.
WriterWaiting(h) == \E u \in Threads : th[u].pc \in {"write", "app_write"} /\ th[u].idx = h

\* T::downcast(&socket) succeeds and socket.accepts(..) is true.
accepts(loop, socket) == socket.proto = loop /\ socket.open

\* The fallback without the test of the inbound control flag.
tcp_fallback_rst_to_rst(control, src_unspec, dst_unspec) ==
    IF dst_unspec \/ src_unspec
    THEN None
    ELSE Some([kind |-> "TcpRst", data |-> 0])

\* RST unless the segment is itself a RST or an address is unspecified.
tcp_fallback(control, src_unspec, dst_unspec) ==
    IF control = "Rst" \/ dst_unspec \/ src_unspec
    THEN None
    ELSE Some([kind |-> "TcpRst", data |-> 0])

IPV4_MIN_MTU == 576
IPV6_MIN_MTU == 1280
IPV4_HEADER_LEN == 20
IPV6_HEADER_LEN == 40
ICMP_DST_UNREACHABLE_HEADER_LEN == 8

Min(a, b) == IF a <= b THEN a ELSE b

icmp_reply_payload_len(len, mtu, header_len) ==
    Min(len, mtu - header_len * 2 - ICMP_DST_UNREACHABLE_HEADER_LEN)

\* icmpv4_reply / icmpv6_reply wrap the ICMP repr in a reply packet.
icmp_reply(version, data_len) ==
    Some([kind |-> IF version = 4 THEN "Icmpv4PortUnreachable"
                   ELSE "Icmpv6PortUnreachable",
          data |-> data_len])

\* The fallback quoting the whole payload, whatever its length.
udp_fallback_untruncated(handled_by_raw_socket, version, payload_len) ==
    IF handled_by_raw_socket THEN None
    ELSE icmp_reply(version, payload_len)

\* The reply of process_udp when no UDP and no DNS socket took the packet;
\* data is the length of the slice &ip_payload[0..payload_len].
udp_fallback(handled_by_raw_socket, version, payload_len) ==
    IF handled_by_raw_socket THEN None
    ELSE IF version = 4
    THEN icmp_reply(4, icmp_reply_payload_len(payload_len, IPV4_MIN_MTU, IPV4_HEADER_LEN))
    ELSE icmp_reply(6, icmp_reply_payload_len(payload_len, IPV6_MIN_MTU, IPV6_HEADER_LEN))

Controls == {"Syn", "Rst"}
IpVersions == {4, 6}
PayloadLens == {8, 529, 1193}

Me(t) == th[t]
Cur(t) == ItemAt(sockets, th[t].idx)
Goto(t, r) == th' = [th EXCEPT ![t] = r]

\* Entry of process_tcp(sockets, ip_repr, ip_payload, queue_id, now): the
\* two check!s return None on a malformed segment, else the loop starts.
tcp_enter(t, queue_id, valid) ==
    /\ ~panicked
    /\ th[t].pc = "idle"
    /\ IF valid
       THEN Goto(t, [Idle EXCEPT !.pc = "scan", !.loop = "tcp", !.qid = queue_id])
       ELSE Goto(t, [Idle EXCEPT !.ret = [NoRet EXCEPT !.kind = "malformed"]])
    /\ UNCHANGED setvars

\* Entry of process_udp(sockets, meta, handled_by_raw_socket, ip_repr,
\* ip_payload, queue_id).
udp_enter(t, queue_id, valid) ==
    /\ ~panicked
    /\ th[t].pc = "idle"
    /\ IF valid
       THEN Goto(t, [Idle EXCEPT !.pc = "scan", !.loop = "udp", !.qid = queue_id])
       ELSE Goto(t, [Idle EXCEPT !.ret = [NoRet EXCEPT !.kind = "malformed",
                                                       !.call = "udp"]])
    /\ UNCHANGED setvars

\* socket.try_read(): fails when the lock is write-held; with a writer
\* queued behind readers the std lock may refuse new readers as well.
try_read_ok(item, h) == item.writers = {}
try_read_err(item, h) == item.writers # {} \/ WriterWaiting(h)

\* One iteration head of `for s in sockets.items()`: the next Item, and
\* try_read on its socket lock.  Err: continue.  Ok: the guard is held.
scan_item(t) ==
    /\ th[t].pc = "scan"
    /\ LET h == NextItem(sockets, th[t].idx) IN
        /\ h < Len(sockets)
        /\ LET item == ItemAt(sockets, h) IN
            \/ /\ try_read_ok(item, h)
               /\ sockets' = SetItem(sockets, h,
                                [item EXCEPT !.readers = @ \cup {t}])
               /\ Goto(t, [th[t] EXCEPT !.pc = "accepts", !.idx = h])
            \/ /\ try_read_err(item, h)
               /\ sockets' = sockets
               /\ Goto(t, [th[t] EXCEPT !.idx = h + 1])
    /\ UNCHANGED <<owned, counter, panicked>>

\* The queue_id update hoisted above the accepts test: every scanned socket
\* is steered.
accepts_item_steer_first(t) ==
    /\ th[t].pc = "accepts"
    /\ LET item == Cur(t) IN
        /\ sockets' = SetItem(sockets, th[t].idx,
                         [item EXCEPT !.readers = @ \ {t}, !.queue_id = th[t].qid])
        /\ IF accepts(th[t].loop, item.socket)
           THEN Goto(t, [th[t] EXCEPT !.pc = "steer"])
           ELSE Goto(t, [th[t] EXCEPT !.pc = "scan", !.idx = @ + 1])
    /\ UNCHANGED <<owned, counter, panicked>>

\* Under the read guard: downcast and accepts.  The guard is dropped on
\* both paths; on a miss the loop continues, on a match the loop body
\* goes on to the queue_id update.
accepts_item(t) ==
    /\ th[t].pc = "accepts"
    /\ LET item == Cur(t) IN
        /\ sockets' = SetItem(sockets, th[t].idx,
                         [item EXCEPT !.readers = @ \ {t}])
        /\ IF accepts(th[t].loop, item.socket)
           THEN Goto(t, [th[t] EXCEPT !.pc = "steer"])
           ELSE Goto(t, [th[t] EXCEPT !.pc = "scan", !.idx = @ + 1])
    /\ UNCHANGED <<owned, counter, panicked>>

\* queue_id.swap(queue_id, Relaxed) in process_tcp, queue_id.store(queue_id,
\* Relaxed) in process_udp: one atomic write of the caller's queue.
steer_item(t) ==
    /\ th[t].pc = "steer"
    /\ sockets' = SetItem(sockets, th[t].idx,
                     [Cur(t) EXCEPT !.queue_id = th[t].qid])
    /\ Goto(t, [th[t] EXCEPT !.pc = "write"])
    /\ UNCHANGED <<owned, counter, panicked>>

\* The write guard taken without waiting for the guards that are alive.
write_item_no_wait(t) ==
    /\ th[t].pc = "write"
    /\ sockets' = SetItem(sockets, th[t].idx,
                     [Cur(t) EXCEPT !.writers = @ \cup {t}])
    /\ Goto(t, [th[t] EXCEPT !.pc = "process"])
    /\ UNCHANGED <<owned, counter, panicked>>

\* socket.write().unwrap(): blocks until no guard is alive.
write_item(t) ==
    /\ th[t].pc = "write"
    /\ Cur(t).readers = {} /\ Cur(t).writers = {}
    /\ sockets' = SetItem(sockets, th[t].idx,
                     [Cur(t) EXCEPT !.writers = {t}])
    /\ Goto(t, [th[t] EXCEPT !.pc = "process"])
    /\ UNCHANGED <<owned, counter, panicked>>

\* downcast_mut(..).unwrap() and socket.process(..) under the write guard,
\* then the return, which drops the guard.  The socket's own state machine
\* decides its next state and, for TCP, whether it answers.
process_item(t, open2, answer) ==
    /\ th[t].pc = "process"
    /\ th[t].loop = "tcp" \/ ~answer
    /\ sockets' = SetItem(sockets, th[t].idx,
                     [Cur(t) EXCEPT !.writers = @ \ {t}, !.socket.open = open2])
    /\ Goto(t, [Idle EXCEPT !.ret =
           [NoRet EXCEPT !.kind = "matched",
                         !.call = IF th[t].loop = "tcp" THEN "tcp" ELSE "udp",
                         !.reply = IF answer
                                   THEN Some([kind |-> "Tcp", data |-> 0])
                                   ELSE None]])
    /\ UNCHANGED <<owned, counter, panicked>>

\* The UDP loop ran out of items: the DNS loop starts from the first item.
udp_to_dns(t) ==
    /\ th[t].pc = "scan" /\ th[t].loop = "udp"
    /\ NextItem(sockets, th[t].idx) >= Len(sockets)
    /\ Goto(t, [th[t] EXCEPT !.loop = "dns", !.idx = 0])
    /\ UNCHANGED setvars

\* process_tcp: no socket took the segment.
tcp_no_match(t, control, src_unspec, dst_unspec) ==
    /\ th[t].pc = "scan" /\ th[t].loop = "tcp"
    /\ NextItem(sockets, th[t].idx) >= Len(sockets)
    /\ Goto(t, [Idle EXCEPT !.ret =
           [NoRet EXCEPT !.kind = "fallback", !.call = "tcp",
                         !.control = control, !.src_unspec = src_unspec,
                         !.dst_unspec = dst_unspec,
                         !.reply = tcp_fallback(control, src_unspec, dst_unspec)]])
    /\ UNCHANGED setvars

\* process_udp: no UDP and no DNS socket took the datagram.
udp_no_match(t, handled_by_raw_socket, version, len) ==
    /\ th[t].pc = "scan" /\ th[t].loop = "dns"
    /\ NextItem(sockets, th[t].idx) >= Len(sockets)
    /\ Goto(t, [Idle EXCEPT !.ret =
           [NoRet EXCEPT !.kind = "fallback", !.call = "udp",
                         !.raw = handled_by_raw_socket, !.version = version,
                         !.len = len,
                         !.reply = udp_fallback(handled_by_raw_socket, version, len)]])
    /\ UNCHANGED setvars

\* The benchmark's server loop body for one item: skip unless
\* queue_id.load() == id, then item.socket.write().
server_select(t, id, h) ==
    /\ ~panicked
    /\ th[t].pc = "idle"
    /\ h \in Live(sockets)
    /\ ItemAt(sockets, h).queue_id = id
    /\ ItemAt(sockets, h).socket.proto = "tcp"
    /\ Goto(t, [Idle EXCEPT !.pc = "app_write", !.idx = h, !.qid = id])
    /\ UNCHANGED setvars

server_write(t) ==
    /\ th[t].pc = "app_write"
    /\ Cur(t).readers = {} /\ Cur(t).writers = {}
    /\ sockets' = SetItem(sockets, th[t].idx,
                     [Cur(t) EXCEPT !.writers = {t}])
    /\ Goto(t, [th[t] EXCEPT !.pc = "app_hold"])
    /\ UNCHANGED <<owned, counter, panicked>>

\* send/recv on the socket, then the guard goes out of scope.
server_release(t, open2) ==
    /\ th[t].pc = "app_hold"
    /\ sockets' = SetItem(sockets, th[t].idx,
                     [Cur(t) EXCEPT !.writers = @ \ {t}, !.socket.open = open2])
    /\ Goto(t, Idle)
    /\ UNCHANGED <<owned, counter, panicked>>

----------------------------------------------------------------------------
(* mutex.rs: the spin Mutex<T> over an AtomicBool.                         *)

MutexThreads == 1 .. NumMutexThreads
MIdle == [pc |-> "idle", res |-> "none"]

\* The threads that own a live MutexGuard.
Guards == {t \in MutexThreads : mth[t].pc = "held"}

\* self.lock.swap(true, Acquire): the value before the swap.
swap_true(l) == [old |-> l, new |-> TRUE]

\* try_lock testing the flag the wrong way round.
try_lock_inverted(t) ==
    /\ mth[t].pc \in {"idle", "held"}
    /\ LET sw == swap_true(lock) IN
        /\ lock' = sw.new
        /\ IF sw.old
           THEN mth' = [mth EXCEPT ![t] = [pc |-> "held", res |-> "Ok"]]
           ELSE mth' = [mth EXCEPT ![t].res = "Err"]
    /\ UNCHANGED inner

\* Mutex::try_lock: one swap; Ok(MutexGuard) when the flag was clear.
try_lock(t) ==
    /\ mth[t].pc \in {"idle", "held"}
    /\ LET sw == swap_true(lock) IN
        /\ lock' = sw.new
        /\ IF ~sw.old
           THEN mth' = [mth EXCEPT ![t] = [pc |-> "held", res |-> "Ok"]]
           ELSE mth' = [mth EXCEPT ![t].res = "Err"]
    /\ UNCHANGED inner

\* Mutex::lock is entered; the loop is about to call try_lock.
lock_enter(t) ==
    /\ mth[t].pc = "idle"
    /\ mth' = [mth EXCEPT ![t] = [pc |-> "lock", res |-> "none"]]
    /\ UNCHANGED <<lock, inner>>

\* One iteration of the loop in Mutex::lock: return on Ok, retry on Err.
lock_spin(t) ==
    /\ mth[t].pc = "lock"
    /\ LET sw == swap_true(lock) IN
        /\ lock' = sw.new
        /\ IF ~sw.old
           THEN mth' = [mth EXCEPT ![t] = [pc |-> "held", res |-> "Ok"]]
           ELSE mth' = mth
    /\ UNCHANGED inner

\* DerefMut on the guard: the holder writes the protected value.
guard_write(t, v) ==
    /\ mth[t].pc = "held"
    /\ inner' = v
    /\ UNCHANGED <<lock, mth>>

\* Drop for MutexGuard: self.mutex.lock.swap(false, Release).
guard_drop(t) ==
    /\ mth[t].pc = "held"
    /\ lock' = FALSE
    /\ mth' = [mth EXCEPT ![t] = MIdle]
    /\ UNCHANGED inner

----------------------------------------------------------------------------
(* phy/loopback.rs: QUEUE_COUNT FIFOs, each behind a std::sync::Mutex.     *)
(* A thread that locks a std Mutex it already holds does not return from   *)
(* lock(): it deadlocks or panics, whichever the platform does.            *)

LIdle == [pc |-> "idle", q |-> 0, tokens |-> {}, ret |-> "none", frame |-> 0]
Unlocked == [owner |-> None, poisoned |-> FALSE]

\* self.queue[q].lock().unwrap() can return the guard to thread t.
lock_acquirable(q) == qlock[q].owner = None /\ ~qlock[q].poisoned
\* The mutex is held by the calling thread: lock() never returns.
lock_relock(t, q) == qlock[q].owner = Some(t)

\* A thread that panics unwinds: every guard it holds is dropped and
\* poisons its mutex.
Unwind(t) ==
    [q \in Queues |->
        IF qlock[q].owner = Some(t) THEN [owner |-> None, poisoned |-> TRUE]
        ELSE qlock[q]]

\* Loopback::receive(now, queue_id) is called.
receive_enter(t, queue_id) ==
    /\ lth[t].pc = "idle"
    /\ lth' = [lth EXCEPT ![t] = [@ EXCEPT !.pc = "recv_lock", !.q = queue_id,
                                          !.ret = "none", !.frame = 0]]
    /\ UNCHANGED <<queue, qlock, sent, committed, delivered>>

\* let mut lock = self.queue[queue_id].lock().unwrap();
receive_lock(t, outcome) ==
    /\ lth[t].pc = "recv_lock"
    /\ LET q == lth[t].q IN
        \/ /\ lock_acquirable(q)
           /\ qlock' = [qlock EXCEPT ![q].owner = Some(t)]
           /\ lth' = [lth EXCEPT ![t].pc = "recv_pop"]
        \/ /\ lock_relock(t, q) /\ outcome = "deadlock"
           /\ lth' = [lth EXCEPT ![t].pc = "deadlocked"]
           /\ UNCHANGED qlock
        \/ /\ lock_relock(t, q) \/ qlock[q].poisoned
           /\ outcome = "panic"
           /\ qlock' = Unwind(t)
           /\ lth' = [lth EXCEPT ![t] = [@ EXCEPT !.pc = "panicked", !.tokens = {}]]
    /\ UNCHANGED <<queue, sent, committed, delivered>>

\* lock.pop_front().map(|buffer| ..): on an empty queue None is returned
\* and the guard dropped; otherwise the closure locks the same mutex for
\* the TxToken while `lock` is still alive.  No path of receive returns
\* Some((rx, tx)), so no step of it extends `delivered`.
receive_pop(t, outcome) ==
    /\ lth[t].pc = "recv_pop"
    /\ LET q == lth[t].q IN
        IF queue[q] = << >>
        THEN /\ qlock' = [qlock EXCEPT ![q].owner = None]
             /\ lth' = [lth EXCEPT ![t] = [@ EXCEPT !.pc = "idle", !.ret = "None"]]
             /\ UNCHANGED queue
        ELSE /\ queue' = [queue EXCEPT ![q] = Tail(@)]
             /\ \/ /\ outcome = "deadlock"
                   /\ lth' = [lth EXCEPT ![t] = [@ EXCEPT !.pc = "deadlocked",
                                                        !.frame = Head(queue[q])]]
                   /\ UNCHANGED qlock
                \/ /\ outcome = "panic"
                   /\ qlock' = Unwind(t)
                   /\ lth' = [lth EXCEPT ![t] = [@ EXCEPT !.pc = "panicked",
                                                        !.tokens = {},
                                                        !.frame = Head(queue[q])]]
    /\ UNCHANGED <<sent, committed, delivered>>

\* Loopback::transmit(now, queue_id) is called.
transmit_enter(t, queue_id) ==
    /\ lth[t].pc = "idle"
    /\ lth' = [lth EXCEPT ![t] = [@ EXCEPT !.pc = "tx_lock", !.q = queue_id,
                                          !.ret = "none", !.frame = 0]]
    /\ UNCHANGED <<queue, qlock, sent, committed, delivered>>

\* Some(TxToken { queue: self.queue[queue_id].lock().unwrap() })
transmit_lock(t, outcome) ==
    /\ lth[t].pc = "tx_lock"
    /\ LET q == lth[t].q IN
        \/ /\ lock_acquirable(q)
           /\ qlock' = [qlock EXCEPT ![q].owner = Some(t)]
           /\ lth' = [lth EXCEPT ![t] = [@ EXCEPT !.pc = "idle", !.ret = "TxToken",
                                                !.tokens = @ \cup {q}]]
        \/ /\ lock_relock(t, q) /\ outcome = "deadlock"
           /\ lth' = [lth EXCEPT ![t].pc = "deadlocked"]
           /\ UNCHANGED qlock
        \/ /\ lock_relock(t, q) \/ qlock[q].poisoned
           /\ outcome = "panic"
           /\ qlock' = Unwind(t)
           /\ lth' = [lth EXCEPT ![t] = [@ EXCEPT !.pc = "panicked", !.tokens = {}]]
    /\ UNCHANGED <<queue, sent, committed, delivered>>

\* TxToken::consume(len, f): f fills the buffer, push_back commits it, and
\* the token's guard is dropped on return.
tx_consume(t, q) ==
    /\ lth[t].pc = "idle"
    /\ q \in lth[t].tokens
    /\ sent < MaxFrames
    /\ queue' = [queue EXCEPT ![q] = Append(@, sent + 1)]
    /\ sent' = sent + 1
    /\ committed' = [committed EXCEPT ![q] = Append(@, sent + 1)]
    /\ qlock' = [qlock EXCEPT ![q].owner = None]
    /\ lth' = [lth EXCEPT ![t] = [@ EXCEPT !.tokens = @ \ {q}, !.ret = "none"]]
    /\ UNCHANGED delivered

\* A TxToken dropped without consume: only its guard is released.
tx_drop(t, q) ==
    /\ lth[t].pc = "idle"
    /\ q \in lth[t].tokens
    /\ qlock' = [qlock EXCEPT ![q].owner = None]
    /\ lth' = [lth EXCEPT ![t] = [@ EXCEPT !.tokens = @ \ {q}, !.ret = "none"]]
    /\ UNCHANGED <<queue, sent, committed, delivered>>

\* TxToken::consume(len, f) when f panics: the buffer is never pushed; the
\* unwind drops the token's guard, which poisons the queue's mutex.
tx_consume_unwind(t, q) ==
    /\ lth[t].pc = "idle"
    /\ q \in lth[t].tokens
    /\ qlock' = Unwind(t)
    /\ lth' = [lth EXCEPT ![t] = [@ EXCEPT !.pc = "panicked", !.tokens = {}]]
    /\ UNCHANGED <<queue, sent, committed, delivered>>

----------------------------------------------------------------------------
(* phy/tuntap_interface.rs: QUEUE_COUNT descriptors of one interface, each *)
(* behind a std::sync::Mutex taken with try_lock.  What recv and send on   *)
(* the non-blocking descriptor report is an input of the call.             *)

IoResults == {"Ok", "WouldBlock", "Other"}
TIdle == [pc |-> "idle", tokens |-> {}, ret |-> "none"]
NoTx == [dev |-> "none", op |-> "none", q |-> 0, f_returned |-> FALSE,
         io |-> "none", ret |-> "none", before |-> 0]

\* self.lower[q].try_lock().ok() is Some(guard): the mutex is neither held
\* (by any thread, the caller included) nor poisoned.
try_lock_ok(q) == lower[q].owner = None /\ ~lower[q].poisoned

\* The frames the descriptor of queue q has accepted.
WireCount(q) == Cardinality({i \in 1 .. Len(wire) : wire[i] = q})

\* panic!("{}", err) with the guard of queue q in hand: the unwind drops it
\* and every other guard the thread holds, poisoning their mutexes.
TunUnwind(t, q) ==
    [p \in Queues |->
        IF p = q \/ lower[p].owner = Some(t)
        THEN [owner |-> None, poisoned |-> TRUE]
        ELSE lower[p]]

TunLog(op, q, f_returned, io, ret) ==
    [dev |-> "tuntap", op |-> op, q |-> q, f_returned |-> f_returned,
     io |-> io, ret |-> ret, before |-> WireCount(q)]

\* A receive that keeps the descriptor locked after WouldBlock.
tt_receive_keeps_lock(t, queue_id, io) ==
    /\ tth[t].pc = "idle"
    /\ try_lock_ok(queue_id)
    /\ lower' = [lower EXCEPT ![queue_id].owner = Some(t)]
    /\ tth' = [tth EXCEPT ![t].ret = IF io = "Ok" THEN "Some" ELSE "None"]
    /\ txlog' = TunLog("receive", queue_id, FALSE, io, tth'[t].ret)
    /\ UNCHANGED wire

\* TunTapInterface::receive(now, queue_id); io is what lower.recv reports.
tt_receive(t, queue_id, io) ==
    /\ tth[t].pc = "idle"
    /\ IF ~try_lock_ok(queue_id)
       THEN /\ tth' = [tth EXCEPT ![t].ret = "None"]
            /\ txlog' = TunLog("receive", queue_id, FALSE, "none", "None")
            /\ UNCHANGED lower
       ELSE CASE io = "Ok" ->
                 /\ lower' = [lower EXCEPT ![queue_id].owner = Some(t)]
                 /\ tth' = [tth EXCEPT ![t] = [@ EXCEPT !.ret = "Some",
                                               !.tokens = @ \cup {queue_id}]]
                 /\ txlog' = TunLog("receive", queue_id, FALSE, io, "Some")
              [] io = "WouldBlock" ->
                 /\ tth' = [tth EXCEPT ![t].ret = "None"]
                 /\ txlog' = TunLog("receive", queue_id, FALSE, io, "None")
                 /\ UNCHANGED lower
              [] OTHER ->
                 /\ lower' = TunUnwind(t, queue_id)
                 /\ tth' = [tth EXCEPT ![t] = [pc |-> "panicked", tokens |-> {},
                                               ret |-> "panic"]]
                 /\ txlog' = TunLog("receive", queue_id, FALSE, io, "panic")
    /\ UNCHANGED wire

\* TunTapInterface::transmit(now, queue_id)
tt_transmit(t, queue_id) ==
    /\ tth[t].pc = "idle"
    /\ IF try_lock_ok(queue_id)
       THEN /\ lower' = [lower EXCEPT ![queue_id].owner = Some(t)]
            /\ tth' = [tth EXCEPT ![t] = [@ EXCEPT !.ret = "TxToken",
                                          !.tokens = @ \cup {queue_id}]]
            /\ txlog' = TunLog("transmit", queue_id, FALSE, "none", "TxToken")
       ELSE /\ tth' = [tth EXCEPT ![t].ret = "None"]
            /\ txlog' = TunLog("transmit", queue_id, FALSE, "none", "None")
            /\ UNCHANGED lower
    /\ UNCHANGED wire

\* A send whose frame the descriptor never gets.
tt_send_never_written(t, q, io) ==
    /\ lower' = [lower EXCEPT ![q].owner = None]
    /\ tth' = [tth EXCEPT ![t] = [@ EXCEPT !.ret = "result", !.tokens = @ \ {q}]]
    /\ UNCHANGED wire

\* match lower.send(&buffer[..]) { Ok | WouldBlock => log | Err => panic };
\* result.  The guard is dropped when consume returns or unwinds.
tt_send(t, q, io) ==
    CASE io = "Ok" ->
         /\ wire' = Append(wire, q)
         /\ lower' = [lower EXCEPT ![q].owner = None]
         /\ tth' = [tth EXCEPT ![t] = [@ EXCEPT !.ret = "result", !.tokens = @ \ {q}]]
      [] io = "WouldBlock" ->
         /\ lower' = [lower EXCEPT ![q].owner = None]
         /\ tth' = [tth EXCEPT ![t] = [@ EXCEPT !.ret = "result", !.tokens = @ \ {q}]]
         /\ UNCHANGED wire
      [] OTHER ->
         /\ lower' = TunUnwind(t, q)
         /\ tth' = [tth EXCEPT ![t] = [pc |-> "panicked", tokens |-> {},
                                       ret |-> "panic"]]
         /\ UNCHANGED wire

\* TunTap TxToken::consume(len, f); f_returns is whether f returns or
\* panics, io is what lower.send reports.
tt_consume(t, q, f_returns, io) ==
    /\ tth[t].pc = "idle"
    /\ q \in tth[t].tokens
    /\ (io = "Ok" /\ f_returns) => Len(wire) < MaxFrames
    /\ IF f_returns
       THEN /\ tt_send(t, q, io)
            /\ txlog' = TunLog("consume", q, TRUE, io, tth'[t].ret)
       ELSE /\ lower' = TunUnwind(t, q)
            /\ tth' = [tth EXCEPT ![t] = [pc |-> "panicked", tokens |-> {},
                                          ret |-> "panic"]]
            /\ txlog' = TunLog("consume", q, FALSE, "none", "panic")
            /\ UNCHANGED wire

\* A TunTap TxToken dropped without consume: only its guard is released.
tt_drop(t, q) ==
    /\ tth[t].pc = "idle"
    /\ q \in tth[t].tokens
    /\ lower' = [lower EXCEPT ![q].owner = None]
    /\ tth' = [tth EXCEPT ![t] = [@ EXCEPT !.ret = "none", !.tokens = @ \ {q}]]
    /\ txlog' = TunLog("drop", q, FALSE, "none", "none")
    /\ UNCHANGED wire

\* The loopback calls with their record in txlog.
LoopLog(op, q, f_returned, ret) ==
    [dev |-> "loopback", op |-> op, q |-> q, f_returned |-> f_returned,
     io |-> "none", ret |-> ret, before |-> Len(committed[q])]
lb_transmit_enter(t, q) ==
    transmit_enter(t, q) /\ txlog' = LoopLog("transmit", q, FALSE, "none")
lb_transmit_lock(t, o) ==
    transmit_lock(t, o) /\ txlog' = LoopLog("transmit", lth[t].q, FALSE, lth'[t].ret)
lb_consume(t, q) ==
    tx_consume(t, q) /\ txlog' = LoopLog("consume", q, TRUE, "result")
lb_consume_unwind(t, q) ==
    tx_consume_unwind(t, q) /\ txlog' = LoopLog("consume", q, FALSE, "panic")
lb_drop(t, q) ==
    tx_drop(t, q) /\ txlog' = LoopLog("drop", q, FALSE, "none")

----------------------------------------------------------------------------
(* iface/interface/igmp.rs: the multicast table, the IGMP report state     *)
(* behind its mutex, the user calls join/leave_multicast_group, the        *)
(* ingress handler process_igmp and the egress step igmp_egress.           *)
(* Instants and Durations are integers (microseconds).  The device is any  *)
(* Device: whether transmit hands out a TxToken is an input of the call.   *)

Addrs == {"224.0.0.22", "224.0.0.251", "239.1.1.1"}
UNSPECIFIED == "0.0.0.0"
MULTICAST_ALL_SYSTEMS == "224.0.0.1"
Ipv6Addr == "ff02::1"
Versions == {1, 2}

Inactive ==
    [kind |-> "Inactive", version |-> 0, timeout |-> 0, interval |-> 0,
     next_index |-> 0, group |-> "none"]
ToGeneralQuery(version, timeout, interval, next_index) ==
    [kind |-> "ToGeneralQuery", version |-> version, timeout |-> timeout,
     interval |-> interval, next_index |-> next_index, group |-> "none"]
ToSpecificQuery(version, timeout, group) ==
    [kind |-> "ToSpecificQuery", version |-> version, timeout |-> timeout,
     interval |-> 0, next_index |-> 0, group |-> group]

InTable(G, addr) == \E i \in 1 .. Len(G) : G[i] = addr
IndexOf(G, addr) == CHOOSE i \in 1 .. Len(G) : G[i] = addr

\* ipv4_multicast_groups.insert(addr, ()): Ok(Some(())) for a key already
\* present, Err when the map is full, Ok(None) after appending the entry.
insert_no_capacity(G, addr) ==
    IF InTable(G, addr) THEN [groups |-> G, res |-> "Some"]
    ELSE [groups |-> Append(G, addr), res |-> "None"]
insert(G, addr) ==
    IF InTable(G, addr) THEN [groups |-> G, res |-> "Some"]
    ELSE IF Len(G) >= IFACE_MAX_MULTICAST_GROUP_COUNT
         THEN [groups |-> G, res |-> "Err"]
         ELSE [groups |-> Append(G, addr), res |-> "None"]

\* ipv4_multicast_groups.remove(&addr): the entry is swapped with the last
\* one and popped; None for a key that is not present.
remove_group(G, addr) ==
    IF ~InTable(G, addr) THEN [groups |-> G, res |-> "None"]
    ELSE LET i == IndexOf(G, addr)
             n == Len(G)
         IN  [groups |-> [j \in 1 .. (n - 1) |-> IF j = i THEN G[n] ELSE G[j]],
              res |-> "Some"]

has_multicast_group(G, addr) == InTable(G, addr)

\* The packets the IGMP code builds.
igmp_report_packet(version, group_addr) ==
    Some([kind |-> "report", version |-> version, group |-> group_addr])
igmp_leave_packet(group_addr) ==
    Some([kind |-> "leave", version |-> 2, group |-> group_addr])

\* dispatch_ip(tx_token, meta, pkt, fragmenter, now).unwrap(): the packet
\* goes out through the token of queue queue_id at the call's time.
dispatch_ip(pkt, queue_id, at) == [pkt |-> pkt, queue |-> queue_id, at |-> at]

\* A join that announces before it knows that the table took the address.
joinResult_announce_first(G, addr, timestamp, tx_avail) ==
    [groups |-> insert(G, addr).groups,
     ret |-> IF insert(G, addr).res = "Err" THEN "GroupTableFull" ELSE "Ok(true)",
     sent |-> << dispatch_ip(Unwrap(igmp_report_packet(2, addr)), 0, timestamp) >>,
     asked |-> TRUE]

\* A join that never announces the new group.
joinResult_no_announce(G, addr, timestamp, tx_avail) ==
    [groups |-> insert(G, addr).groups,
     ret |-> IF insert(G, addr).res = "Err" THEN "GroupTableFull"
             ELSE IF insert(G, addr).res = "Some" THEN "Ok(false)" ELSE "Ok(true)",
     sent |-> << >>, asked |-> FALSE]

\* A join that takes the address out of the table again when the device
\* has no TxToken.
joinResult_rollback(G, addr, timestamp, tx_avail) ==
    IF addr = Ipv6Addr
    THEN [groups |-> G, ret |-> "Ipv6NotSupported", sent |-> << >>, asked |-> FALSE]
    ELSE IF insert(G, addr).res = "Err"
    THEN [groups |-> G, ret |-> "GroupTableFull", sent |-> << >>, asked |-> FALSE]
    ELSE IF insert(G, addr).res = "Some"
    THEN [groups |-> G, ret |-> "Ok(false)", sent |-> << >>, asked |-> FALSE]
    ELSE IF tx_avail
    THEN [groups |-> insert(G, addr).groups, ret |-> "Ok(true)",
          sent |-> << dispatch_ip(Unwrap(igmp_report_packet(2, addr)), 0,
                                  timestamp) >>,
          asked |-> TRUE]
    ELSE [groups |-> G, ret |-> "Exhausted", sent |-> << >>, asked |-> TRUE]

\* Interface::join_multicast_group(device, addr, timestamp)
joinResult(G, addr, timestamp, tx_avail) ==
    IF addr = Ipv6Addr
    THEN [groups |-> G, ret |-> "Ipv6NotSupported", sent |-> << >>, asked |-> FALSE]
    ELSE LET ins == insert(G, addr)
             pkt == igmp_report_packet(2, addr)
         IN  IF ins.res = "Err"
             THEN [groups |-> G, ret |-> "GroupTableFull", sent |-> << >>,
                   asked |-> FALSE]
             ELSE IF ins.res = "Some"
             THEN [groups |-> ins.groups, ret |-> "Ok(false)", sent |-> << >>,
                   asked |-> FALSE]
             ELSE IF IsSome(pkt)
             THEN IF tx_avail
                  THEN [groups |-> ins.groups, ret |-> "Ok(true)",
                        sent |-> << dispatch_ip(Unwrap(pkt), 0, timestamp) >>,
                        asked |-> TRUE]
                  ELSE [groups |-> ins.groups, ret |-> "Exhausted",
                        sent |-> << >>, asked |-> TRUE]
             ELSE [groups |-> ins.groups, ret |-> "Ok(false)", sent |-> << >>,
                   asked |-> FALSE]

\* Interface::leave_multicast_group(device, addr, timestamp)
leaveResult(G, addr, timestamp, tx_avail) ==
    IF addr = Ipv6Addr
    THEN [groups |-> G, ret |-> "Ipv6NotSupported", sent |-> << >>, asked |-> FALSE]
    ELSE LET rem == remove_group(G, addr)
             pkt == igmp_leave_packet(addr)
         IN  IF rem.res = "None"
             THEN [groups |-> G, ret |-> "Ok(false)", sent |-> << >>,
                   asked |-> FALSE]
             ELSE IF IsSome(pkt)
             THEN IF tx_avail
                  THEN [groups |-> rem.groups, ret |-> "Ok(true)",
                        sent |-> << dispatch_ip(Unwrap(pkt), 0, timestamp) >>,
                        asked |-> TRUE]
                  ELSE [groups |-> rem.groups, ret |-> "Exhausted",
                        sent |-> << >>, asked |-> TRUE]
             ELSE [groups |-> rem.groups, ret |-> "Ok(false)", sent |-> << >>,
                   asked |-> FALSE]

\* An IGMP payload as process_igmp sees it after parsing.
IgmpKinds == {"malformed", "MembershipQuery", "MembershipReport", "LeaveGroup"}
IgmpRepr(kind, group_addr, dst_addr, version, max_resp_time) ==
    [kind |-> kind, group_addr |-> group_addr, dst_addr |-> dst_addr,
     version |-> version, max_resp_time |-> max_resp_time]

\* A general query answered with the v1 interval whatever its version.
processResult_fixed_interval(G, state, repr, at) ==
    IF /\ repr.kind = "MembershipQuery" /\ repr.group_addr = UNSPECIFIED
       /\ repr.dst_addr = MULTICAST_ALL_SYSTEMS /\ G # << >>
    THEN ToGeneralQuery(repr.version, at + IGMP_V1_INTERVAL, IGMP_V1_INTERVAL, 0)
    ELSE state

\* A group-specific query accepted whatever the IP destination.
processResult_any_destination(G, state, repr, at) ==
    IF repr.kind # "MembershipQuery" THEN state
    ELSE IF repr.group_addr = UNSPECIFIED /\ repr.dst_addr = MULTICAST_ALL_SYSTEMS
    THEN IF G # << >>
         THEN LET interval == IF repr.version = 1 THEN IGMP_V1_INTERVAL
                              ELSE repr.max_resp_time \div (Len(G) + 1)
              IN  ToGeneralQuery(repr.version, at + interval, interval, 0)
         ELSE state
    ELSE IF has_multicast_group(G, repr.group_addr)
         THEN ToSpecificQuery(repr.version, at + (repr.max_resp_time \div 4),
                              repr.group_addr)
         ELSE state

\* A host that drops its pending report when it hears another report.
processResult_report_cancels(G, state, repr, at) ==
    IF repr.kind = "MembershipReport" THEN Inactive
    ELSE IF repr.kind # "MembershipQuery" THEN state
    ELSE IF repr.group_addr = UNSPECIFIED /\ repr.dst_addr = MULTICAST_ALL_SYSTEMS
    THEN IF G # << >>
         THEN LET interval == IF repr.version = 1 THEN IGMP_V1_INTERVAL
                              ELSE repr.max_resp_time \div (Len(G) + 1)
              IN  ToGeneralQuery(repr.version, at + interval, interval, 0)
         ELSE state
    ELSE IF has_multicast_group(G, repr.group_addr) /\ repr.dst_addr = repr.group_addr
         THEN ToSpecificQuery(repr.version, at + (repr.max_resp_time \div 4),
                              repr.group_addr)
         ELSE state

\* A host that finishes the response it has pending before it takes the
\* next query.
processResult_keeps_pending(G, state, repr, at) ==
    IF state.kind # "Inactive" THEN state
    ELSE IF repr.kind # "MembershipQuery" THEN state
    ELSE IF repr.group_addr = UNSPECIFIED /\ repr.dst_addr = MULTICAST_ALL_SYSTEMS
    THEN IF G # << >>
         THEN LET interval == IF repr.version = 1 THEN IGMP_V1_INTERVAL
                              ELSE repr.max_resp_time \div (Len(G) + 1)
              IN  ToGeneralQuery(repr.version, at + interval, interval, 0)
         ELSE state
    ELSE IF has_multicast_group(G, repr.group_addr) /\ repr.dst_addr = repr.group_addr
         THEN ToSpecificQuery(repr.version, at + (repr.max_resp_time \div 4),
                              repr.group_addr)
         ELSE state

\* InterfaceInner::process_igmp: the value igmp_report_state has after the
\* call (the call itself always returns None).
processResult(G, state, repr, at) ==
    IF repr.kind # "MembershipQuery" THEN state
    ELSE IF repr.group_addr = UNSPECIFIED /\ repr.dst_addr = MULTICAST_ALL_SYSTEMS
    THEN IF G # << >>
         THEN LET interval == IF repr.version = 1 THEN IGMP_V1_INTERVAL
                              ELSE repr.max_resp_time \div (Len(G) + 1)
              IN  ToGeneralQuery(repr.version, at + interval, interval, 0)
         ELSE state
    ELSE IF has_multicast_group(G, repr.group_addr) /\ repr.dst_addr = repr.group_addr
         THEN ToSpecificQuery(repr.version, at + (repr.max_resp_time \div 4),
                              repr.group_addr)
         ELSE state

Max(a, b) == IF a >= b THEN a ELSE b

\* An egress that gives up the pending report when no TxToken is available.
egressResult_inactive_without_token(G, state, queue_id, at, tx_avail) ==
    [state |-> IF state.kind # "Inactive" /\ at >= state.timeout
               THEN Inactive ELSE state,
     ret |-> FALSE, sent |-> << >>, asked |-> TRUE]

\* An egress that answers a group-specific query but stays in the state.
egressResult_specific_stays(G, state, queue_id, at, tx_avail) ==
    IF state.kind = "Inactive" \/ at < state.timeout
    THEN [state |-> state, ret |-> FALSE, sent |-> << >>, asked |-> FALSE]
    ELSE IF state.kind = "ToSpecificQuery"
    THEN [state |-> state, ret |-> tx_avail,
          sent |-> IF tx_avail
                   THEN << dispatch_ip(Unwrap(igmp_report_packet(state.version,
                                                                 state.group)),
                                       queue_id, at) >>
                   ELSE << >>,
          asked |-> TRUE]
    ELSE IF state.next_index >= Len(G)
    THEN [state |-> Inactive, ret |-> FALSE, sent |-> << >>, asked |-> FALSE]
    ELSE [state |-> IF tx_avail
                    THEN ToGeneralQuery(state.version,
                                        Max(state.timeout + state.interval, at),
                                        state.interval, state.next_index + 1)
                    ELSE state,
          ret |-> tx_avail,
          sent |-> IF tx_avail
                   THEN << dispatch_ip(Unwrap(igmp_report_packet(
                                           state.version, G[state.next_index + 1])),
                                       queue_id, at) >>
                   ELSE << >>,
          asked |-> TRUE]

\* An egress that schedules the next report one interval after the timeout,
\* without the clamp to now.
egressResult_no_clamp(G, state, queue_id, at, tx_avail) ==
    IF state.kind = "Inactive" \/ at < state.timeout
    THEN [state |-> state, ret |-> FALSE, sent |-> << >>, asked |-> FALSE]
    ELSE IF state.kind = "ToSpecificQuery"
    THEN [state |-> IF tx_avail THEN Inactive ELSE state, ret |-> tx_avail,
          sent |-> IF tx_avail
                   THEN << dispatch_ip(Unwrap(igmp_report_packet(state.version,
                                                                 state.group)),
                                       queue_id, at) >>
                   ELSE << >>,
          asked |-> TRUE]
    ELSE IF state.next_index >= Len(G)
    THEN [state |-> Inactive, ret |-> FALSE, sent |-> << >>, asked |-> FALSE]
    ELSE [state |-> IF tx_avail
                    THEN ToGeneralQuery(state.version,
                                        state.timeout + state.interval,
                                        state.interval, state.next_index + 1)
                    ELSE state,
          ret |-> tx_avail,
          sent |-> IF tx_avail
                   THEN << dispatch_ip(Unwrap(igmp_report_packet(
                                           state.version, G[state.next_index + 1])),
                                       queue_id, at) >>
                   ELSE << >>,
          asked |-> TRUE]

\* An egress that keeps a finished general response pending.
egressResult_never_inactive(G, state, queue_id, at, tx_avail) ==
    IF state.kind = "Inactive" \/ at < state.timeout \/ ~tx_avail
    THEN [state |-> state, ret |-> FALSE, sent |-> << >>, asked |-> tx_avail]
    ELSE IF state.kind = "ToSpecificQuery"
    THEN [state |-> Inactive, ret |-> TRUE,
          sent |-> << dispatch_ip(Unwrap(igmp_report_packet(state.version,
                                                            state.group)),
                                  queue_id, at) >>,
          asked |-> TRUE]
    ELSE IF state.next_index < Len(G)
    THEN [state |-> ToGeneralQuery(state.version,
                                   Max(state.timeout + state.interval, at),
                                   state.interval, state.next_index + 1),
          ret |-> TRUE,
          sent |-> << dispatch_ip(Unwrap(igmp_report_packet(
                                      state.version, G[state.next_index + 1])),
                                  queue_id, at) >>,
          asked |-> TRUE]
    ELSE [state |-> state, ret |-> FALSE, sent |-> << >>, asked |-> FALSE]

\* An egress that answers a general query at once, without waiting for the
\* stored timeout.
egressResult_no_wait(G, state, queue_id, at, tx_avail) ==
    IF state.kind = "ToSpecificQuery" /\ at >= state.timeout
    THEN LET pkt == igmp_report_packet(state.version, state.group)
         IN  IF IsSome(pkt)
             THEN IF tx_avail
                  THEN [state |-> Inactive, ret |-> TRUE,
                        sent |-> << dispatch_ip(Unwrap(pkt), queue_id, at) >>,
                        asked |-> TRUE]
                  ELSE [state |-> state, ret |-> FALSE, sent |-> << >>,
                        asked |-> TRUE]
             ELSE [state |-> Inactive, ret |-> TRUE, sent |-> << >>,
                   asked |-> FALSE]
    ELSE IF state.kind = "ToGeneralQuery"
    THEN IF state.next_index < Len(G)
         THEN LET addr == G[state.next_index + 1]
                  pkt == igmp_report_packet(state.version, addr)
                  next == ToGeneralQuery(state.version,
                                         Max(state.timeout + state.interval, at),
                                         state.interval, state.next_index + 1)
              IN  IF IsSome(pkt)
                  THEN IF tx_avail
                       THEN [state |-> next, ret |-> TRUE,
                             sent |-> << dispatch_ip(Unwrap(pkt), queue_id, at) >>,
                             asked |-> TRUE]
                       ELSE [state |-> state, ret |-> FALSE, sent |-> << >>,
                             asked |-> TRUE]
                  ELSE [state |-> next, ret |-> TRUE, sent |-> << >>,
                        asked |-> FALSE]
         ELSE [state |-> Inactive, ret |-> FALSE, sent |-> << >>, asked |-> FALSE]
    ELSE [state |-> state, ret |-> FALSE, sent |-> << >>, asked |-> FALSE]

\* igmp_egress once it holds the fragmenter and the state mutex:
\* match *igmp_report_state { .. }
egressResult(G, state, queue_id, at, tx_avail) ==
    IF state.kind = "ToSpecificQuery" /\ at >= state.timeout
    THEN LET pkt == igmp_report_packet(state.version, state.group)
         IN  IF IsSome(pkt)
             THEN IF tx_avail
                  THEN [state |-> Inactive, ret |-> TRUE,
                        sent |-> << dispatch_ip(Unwrap(pkt), queue_id, at) >>,
                        asked |-> TRUE]
                  ELSE [state |-> state, ret |-> FALSE, sent |-> << >>,
                        asked |-> TRUE]
             ELSE [state |-> Inactive, ret |-> TRUE, sent |-> << >>,
                   asked |-> FALSE]
    ELSE IF state.kind = "ToGeneralQuery" /\ at >= state.timeout
    THEN IF state.next_index < Len(G)
         THEN LET addr == G[state.next_index + 1]
                  pkt == igmp_report_packet(state.version, addr)
                  next == ToGeneralQuery(state.version,
                                         Max(state.timeout + state.interval, at),
                                         state.interval, state.next_index + 1)
              IN  IF IsSome(pkt)
                  THEN IF tx_avail
                       THEN [state |-> next, ret |-> TRUE,
                             sent |-> << dispatch_ip(Unwrap(pkt), queue_id, at) >>,
                             asked |-> TRUE]
                       ELSE [state |-> state, ret |-> FALSE, sent |-> << >>,
                             asked |-> TRUE]
                  ELSE [state |-> next, ret |-> TRUE, sent |-> << >>,
                        asked |-> FALSE]
         ELSE [state |-> Inactive, ret |-> FALSE, sent |-> << >>, asked |-> FALSE]
    ELSE [state |-> state, ret |-> FALSE, sent |-> << >>, asked |-> FALSE]

IIdle ==
    [pc |-> "idle", q |-> 0, at |-> 0, ret |-> "none", asked |-> FALSE,
     seen |-> Inactive]
NoIgmpCall ==
    [op |-> "none", addr |-> "none", repr |-> IgmpRepr("malformed", UNSPECIFIED,
                                                        UNSPECIFIED, 1, 0),
     at |-> 0, tx_avail |-> FALSE, ret |-> "none", before |-> << >>,
     after |-> << >>, sent |-> << >>, state_before |-> Inactive,
     state_after |-> Inactive]

\* &mut self on the Interface: no worker is inside a call on it.
IgmpExclusive == \A t \in Threads : ith[t].pc = "idle"

\* join_multicast_group(device, addr, timestamp) with timestamp the
\* current time.
join_multicast_group(addr, tx_avail) ==
    /\ IgmpExclusive
    /\ LET r == joinResult(groups, addr, now, tx_avail) IN
        /\ groups' = r.groups
        /\ emitted' = r.sent
    /\ UNCHANGED <<igmp_report_state, igmp_lock, frag, ith, now>>

\* A leave that drops the pending report for the group it leaves.
leave_multicast_group_drains(addr, tx_avail) ==
    /\ IgmpExclusive
    /\ LET r == leaveResult(groups, addr, now, tx_avail) IN
        /\ groups' = r.groups
        /\ emitted' = r.sent
    /\ igmp_report_state' =
          IF /\ igmp_report_state.kind = "ToSpecificQuery"
             /\ igmp_report_state.group = addr
          THEN Inactive ELSE igmp_report_state
    /\ UNCHANGED <<igmp_lock, frag, ith, now>>

leave_multicast_group(addr, tx_avail) ==
    /\ IgmpExclusive
    /\ LET r == leaveResult(groups, addr, now, tx_avail) IN
        /\ groups' = r.groups
        /\ emitted' = r.sent
    /\ UNCHANGED <<igmp_report_state, igmp_lock, frag, ith, now>>

\* process_igmp(ipv4_repr, ip_payload, now) on worker t.  The assignment
\* through igmp_report_state.lock() waits while the mutex is held.
process_igmp(t, repr) ==
    /\ ith[t].pc = "idle"
    /\ now <= MaxNow
    /\ LET state == processResult(groups, igmp_report_state, repr, now)
           accepted ==
               /\ repr.kind = "MembershipQuery"
               /\ \/ /\ repr.group_addr = UNSPECIFIED
                     /\ repr.dst_addr = MULTICAST_ALL_SYSTEMS
                     /\ groups # << >>
                  \/ /\ ~(repr.group_addr = UNSPECIFIED
                          /\ repr.dst_addr = MULTICAST_ALL_SYSTEMS)
                     /\ has_multicast_group(groups, repr.group_addr)
                     /\ repr.dst_addr = repr.group_addr
       IN  /\ accepted => igmp_lock = None
           /\ igmp_report_state' = state
           /\ emitted' = IF accepted THEN << >> ELSE emitted
    /\ ith' = [ith EXCEPT ![t].ret = "None"]
    /\ UNCHANGED <<groups, igmp_lock, frag, now>>

\* An interface with one fragmenter for all queues: a call is refused when
\* any fragmenter guard is alive.
egress_enter_one_fragmenter(t, queue_id) ==
    /\ ith[t].pc = "idle"
    /\ IF \A q \in Queues : frag[q] = None
       THEN /\ frag' = [frag EXCEPT ![queue_id] = Some(t)]
            /\ ith' = [ith EXCEPT ![t] = [IIdle EXCEPT !.pc = "lock",
                                                       !.q = queue_id,
                                                       !.at = now]]
       ELSE /\ ith' = [ith EXCEPT ![t] = [IIdle EXCEPT !.ret = "false"]]
            /\ UNCHANGED frag
    /\ UNCHANGED <<groups, igmp_report_state, igmp_lock, now, emitted>>

\* igmp_egress(device, queue_id, now): get_fragmenter_egress(queue_id) is
\* None when the fragmenter of that queue is held, and the call returns
\* false.
egress_enter(t, queue_id) ==
    /\ ith[t].pc = "idle"
    /\ IF frag[queue_id] = None
       THEN /\ frag' = [frag EXCEPT ![queue_id] = Some(t)]
            /\ ith' = [ith EXCEPT ![t] = [IIdle EXCEPT !.pc = "lock",
                                                       !.q = queue_id,
                                                       !.at = now]]
       ELSE /\ ith' = [ith EXCEPT ![t] = [IIdle EXCEPT !.ret = "false"]]
            /\ UNCHANGED frag
    /\ UNCHANGED <<groups, igmp_report_state, igmp_lock, now, emitted>>

\* A state mutex that lets a second worker in.
egress_lock_shared(t) ==
    /\ ith[t].pc = "lock"
    /\ igmp_lock' = Some(t)
    /\ ith' = [ith EXCEPT ![t].pc = "match"]
    /\ UNCHANGED <<groups, igmp_report_state, frag, now, emitted>>

\* let mut igmp_report_state = self.inner.igmp_report_state.lock().unwrap();
egress_lock(t) ==
    /\ ith[t].pc = "lock"
    /\ igmp_lock = None
    /\ igmp_lock' = Some(t)
    /\ ith' = [ith EXCEPT ![t].pc = "match"]
    /\ UNCHANGED <<groups, igmp_report_state, frag, now, emitted>>

\* The match on the state, and the return, which drops both guards.
egress_match(t, tx_avail) ==
    /\ ith[t].pc = "match"
    /\ LET r == egressResult(groups, igmp_report_state, ith[t].q, ith[t].at,
                             tx_avail)
       IN  /\ igmp_report_state' = r.state
           /\ emitted' = emitted \o r.sent
           /\ ith' = [ith EXCEPT ![t] =
                         [IIdle EXCEPT !.ret = IF r.ret THEN "true" ELSE "false",
                                       !.asked = r.asked]]
    /\ igmp_lock' = None
    /\ frag' = [frag EXCEPT ![ith[t].q] = None]
    /\ UNCHANGED <<groups, now>>

\* The same critical section in two steps, for the specification that
\* watches the workers interleave: the match reads *igmp_report_state ...
egress_read(t) ==
    /\ ith[t].pc = "match"
    /\ ith' = [ith EXCEPT ![t].pc = "matched", ![t].seen = igmp_report_state]
    /\ UNCHANGED <<groups, igmp_report_state, igmp_lock, frag, now, emitted>>

\* ... and the arm taken sends the report, assigns *igmp_report_state and
\* returns, dropping both guards.
egress_write(t, tx_avail) ==
    /\ ith[t].pc = "matched"
    /\ LET r == egressResult(groups, ith[t].seen, ith[t].q, ith[t].at, tx_avail)
       IN  /\ igmp_report_state' = IF r.state = ith[t].seen
                                   THEN igmp_report_state ELSE r.state
           /\ emitted' = emitted \o r.sent
           /\ ith' = [ith EXCEPT ![t] =
                         [IIdle EXCEPT !.ret = IF r.ret THEN "true" ELSE "false",
                                       !.asked = r.asked]]
    /\ igmp_lock' = None
    /\ frag' = [frag EXCEPT ![ith[t].q] = None]
    /\ UNCHANGED <<groups, now>>

\* Time passes: by one unit, or up to the pending timeout.
tick ==
    /\ now < MaxNow
    /\ now' = now + 1
    /\ UNCHANGED <<groups, igmp_report_state, igmp_lock, frag, ith, emitted>>

tick_to_timeout ==
    /\ igmp_report_state.kind # "Inactive"
    /\ igmp_report_state.timeout > now
    /\ now' = igmp_report_state.timeout
    /\ UNCHANGED <<groups, igmp_report_state, igmp_lock, frag, ith, emitted>>

----------------------------------------------------------------------------
(* Specifications.                                                         *)

\* Mutex::new(value)
MutexInit ==
    /\ lock = FALSE
    /\ inner = 0
    /\ mth = [t \in MutexThreads |-> MIdle]

\* Loopback::new(medium): every queue empty and unlocked.
LoopInit ==
    /\ queue = [q \in Queues |-> << >>]
    /\ qlock = [q \in Queues |-> Unlocked]
    /\ lth = [t \in Threads |-> LIdle]
    /\ sent = 0
    /\ committed = [q \in Queues |-> << >>]
    /\ delivered = [q \in Queues |-> << >>]

\* Interface::new: no group joined, no report pending, nothing locked.
IgmpInit ==
    /\ groups = << >>
    /\ igmp_report_state = Inactive
    /\ igmp_lock = None
    /\ frag = [q \in Queues |-> None]
    /\ ith = [t \in Threads |-> IIdle]
    /\ now = 0
    /\ emitted = << >>
    /\ ilast = NoIgmpCall

\* TunTapInterface::new: one descriptor per queue, every mutex unlocked.
TunInit ==
    /\ lower = [q \in Queues |-> Unlocked]
    /\ tth = [t \in Threads |-> TIdle]
    /\ wire = << >>
    /\ txlog = NoTx

\* SocketSet::new(storage): a Vec (empty here) or a borrowed slice of empty
\* slots; the counter starts at 0.
SetInit ==
    /\ owned \in BOOLEAN
    /\ sockets \in (IF owned THEN {<< >>}
                    ELSE {[i \in 1 .. n |-> EMPTY] : n \in 0 .. MaxSlots})
    /\ counter = 0
    /\ panicked = FALSE
    /\ last = NoCall
    /\ adds = 0
    /\ given = [h \in 0 .. (MaxSlots - 1) |-> None]
    /\ th = [t \in Threads |-> Idle]

Init == SetInit /\ MutexInit /\ LoopInit /\ TunInit /\ IgmpInit

\* main() of the benchmark: the owner fills a Vec-backed set with add, in
\* order, and only then shares it with the workers.
RECURSIVE Filled(_)
Filled(socks) ==
    IF socks = << >>
    THEN [sockets |-> << >>, counter |-> 0]
    ELSE LET before == Filled(SubSeq(socks, 1, Len(socks) - 1))
         IN  addResult(before.sockets, before.counter, TRUE, socks[Len(socks)])

Sockets0 == {Socket(p, o, 0) : p \in Protos, o \in BOOLEAN}

InitShared ==
    /\ owned = TRUE
    /\ \E n \in 0 .. MaxSlots : \E socks \in [1 .. n -> Sockets0] :
          /\ sockets = Filled(socks).sockets
          /\ counter = Filled(socks).counter
    /\ panicked = FALSE
    /\ last = NoCall
    /\ adds = 0
    /\ given = [h \in 0 .. (MaxSlots - 1) |-> None]
    /\ th = [t \in Threads |-> Idle]
    /\ MutexInit /\ LoopInit /\ TunInit /\ IgmpInit

\* The registry shared by the workers, each running ingress dispatch and
\* the server loop on its own queue; remove whenever the set is exclusively
\* borrowed again.
Next ==
    \/ \E h \in 0 .. (MaxSlots - 1) :
         remove(h) /\ UNCHANGED <<histvars, mutexvars, loopvars, tunvars, txlog, igmpvars>>
    \/ \E t \in Threads :
         /\ UNCHANGED <<histvars, mutexvars, loopvars, tunvars, txlog, igmpvars>>
         /\ \/ tcp_enter(t, t, TRUE)
            \/ udp_enter(t, t, TRUE)
            \/ scan_item(t)
            \/ accepts_item(t)
            \/ steer_item(t)
            \/ write_item(t)
            \/ \E o \in BOOLEAN : process_item(t, o, FALSE)
            \/ udp_to_dns(t)
            \/ tcp_no_match(t, "Syn", FALSE, FALSE)
            \/ udp_no_match(t, FALSE, 4, 8)
            \/ \E h \in 0 .. (MaxSlots - 1) : server_select(t, t, h)
            \/ server_write(t)
            \/ \E o \in BOOLEAN : server_release(t, o)

Spec == InitShared /\ [][Next]_vars

\* One caller making add, remove, process_tcp and process_udp calls in
\* sequence, on any queue.
Caller == 0

NextSeq ==
    \/ \E p \in Protos, o \in BOOLEAN :
         add(Socket(p, o, 0)) /\ UNCHANGED <<histvars, mutexvars, loopvars, tunvars, txlog, igmpvars>>
    \/ \E h \in 0 .. (MaxSlots - 1) :
         remove(h) /\ UNCHANGED <<histvars, mutexvars, loopvars, tunvars, txlog, igmpvars>>
    \/ /\ UNCHANGED <<histvars, mutexvars, loopvars, tunvars, txlog, igmpvars>>
       /\ \/ \E q \in Queues : tcp_enter(Caller, q, TRUE)
          \/ \E q \in Queues : udp_enter(Caller, q, TRUE)
          \/ scan_item(Caller)
          \/ accepts_item(Caller)
          \/ steer_item(Caller)
          \/ write_item(Caller)
          \/ \E o \in BOOLEAN : process_item(Caller, o, FALSE)
          \/ udp_to_dns(Caller)
          \/ tcp_no_match(Caller, "Syn", FALSE, FALSE)
          \/ udp_no_match(Caller, FALSE, 4, 8)

SpecSeq == Init /\ [][NextSeq]_vars

\* One caller of process_tcp and process_udp on a filled set, with every
\* input the replies depend on.
NextReply ==
    /\ UNCHANGED <<histvars, mutexvars, loopvars, tunvars, txlog, igmpvars>>
    /\ \/ \E q \in Queues, v \in BOOLEAN : tcp_enter(Caller, q, v)
       \/ \E q \in Queues, v \in BOOLEAN : udp_enter(Caller, q, v)
       \/ scan_item(Caller)
       \/ accepts_item(Caller)
       \/ steer_item(Caller)
       \/ write_item(Caller)
       \/ \E o \in BOOLEAN, a \in BOOLEAN : process_item(Caller, o, a)
       \/ udp_to_dns(Caller)
       \/ \E c \in Controls, s \in BOOLEAN, d \in BOOLEAN :
            tcp_no_match(Caller, c, s, d)
       \/ \E r \in BOOLEAN, v \in IpVersions, n \in PayloadLens :
            udp_no_match(Caller, r, v, n)

SpecReply == InitShared /\ [][NextReply]_vars

\* The registry used by its owner alone: add and remove with what each
\* call returned.
NextSet ==
    \/ \E p \in Protos, o \in BOOLEAN :
         addCall(Socket(p, o, adds)) /\ UNCHANGED <<mutexvars, loopvars, tunvars, txlog, igmpvars>>
    \/ \E h \in 0 .. (MaxSlots - 1) :
         removeCall(h) /\ UNCHANGED <<mutexvars, loopvars, tunvars, txlog, igmpvars>>

SpecSet == Init /\ [][NextSet]_vars

setall == <<sockets, owned, counter, panicked, last, adds, given, th>>

\* Threads sharing one Mutex<T>.
NextMutex ==
    /\ UNCHANGED <<setall, loopvars, tunvars, txlog, igmpvars>>
    /\ \E t \in MutexThreads :
         \/ try_lock(t)
         \/ lock_enter(t)
         \/ lock_spin(t)
         \/ \E v \in 0 .. 1 : guard_write(t, v)
         \/ guard_drop(t)

SpecMutex == Init /\ [][NextMutex]_vars

\* Threads sharing one Loopback device.
Outcomes == {"deadlock", "panic"}

NextLoopback ==
    /\ UNCHANGED <<setall, mutexvars, tunvars, txlog, igmpvars>>
    /\ \E t \in Threads :
         \/ \E q \in Queues : receive_enter(t, q)
         \/ \E o \in Outcomes : receive_lock(t, o)
         \/ \E o \in Outcomes : receive_pop(t, o)
         \/ \E q \in Queues : transmit_enter(t, q)
         \/ \E o \in Outcomes : transmit_lock(t, o)
         \/ \E q \in Queues : tx_consume(t, q)
         \/ \E q \in Queues : tx_drop(t, q)

SpecLoopback == Init /\ [][NextLoopback]_vars

\* The socket set plays no part in the device specifications below: it
\* starts as the empty Vec.
InitTokens == Init /\ owned /\ sockets = << >>

\* Threads sharing one TunTapInterface.
NextTunTap ==
    /\ UNCHANGED <<setall, mutexvars, loopvars, igmpvars>>
    /\ \E t \in Threads :
         \/ \E q \in Queues : \E io \in IoResults : tt_receive(t, q, io)
         \/ \E q \in Queues : tt_transmit(t, q)
         \/ \E q \in Queues : \E r \in BOOLEAN : \E io \in IoResults :
               tt_consume(t, q, r, io)
         \/ \E q \in Queues : tt_drop(t, q)

SpecTunTap == InitTokens /\ [][NextTunTap]_vars

\* One caller obtaining and using TxTokens of both backends.
NextTokens ==
    /\ UNCHANGED <<setall, mutexvars, igmpvars>>
    /\ \/ /\ UNCHANGED tunvars
          /\ \/ \E q \in Queues : lb_transmit_enter(Caller, q)
             \/ \E o \in Outcomes : lb_transmit_lock(Caller, o)
             \/ \E q \in Queues : lb_consume(Caller, q)
             \/ \E q \in Queues : lb_consume_unwind(Caller, q)
             \/ \E q \in Queues : lb_drop(Caller, q)
       \/ /\ UNCHANGED loopvars
          /\ \/ \E q \in Queues : \E io \in IoResults : tt_receive(Caller, q, io)
             \/ \E q \in Queues : tt_transmit(Caller, q)
             \/ \E q \in Queues : \E r \in BOOLEAN : \E io \in IoResults :
                   tt_consume(Caller, q, r, io)
             \/ \E q \in Queues : tt_drop(Caller, q)

SpecTokens == InitTokens /\ [][NextTokens]_vars

\* The user calls and process_igmp with their record in ilast.
IgmpCall(op, addr, repr, tx_avail, ret, pkts) ==
    [op |-> op, addr |-> addr, repr |-> repr, at |-> now, tx_avail |-> tx_avail,
     ret |-> ret, before |-> groups, after |-> groups', sent |-> pkts,
     state_before |-> igmp_report_state, state_after |-> igmp_report_state']
joinCall(addr, tx_avail) ==
    /\ join_multicast_group(addr, tx_avail)
    /\ ilast' = IgmpCall("join", addr, NoIgmpCall.repr, tx_avail,
                         joinResult(groups, addr, now, tx_avail).ret, emitted')
leaveCall(addr, tx_avail) ==
    /\ leave_multicast_group(addr, tx_avail)
    /\ ilast' = IgmpCall("leave", addr, NoIgmpCall.repr, tx_avail,
                         leaveResult(groups, addr, now, tx_avail).ret, emitted')
queryCall(t, repr) ==
    /\ process_igmp(t, repr)
    /\ ilast' = IgmpCall("process_igmp", "none", repr, FALSE, ith'[t].ret, << >>)

\* The IGMP payloads fed to process_igmp.
QueryGroups == {UNSPECIFIED, "224.0.0.22", "239.1.1.1"}
QueryDsts == {MULTICAST_ALL_SYSTEMS, "224.0.0.22"}
Reprs ==
    {IgmpRepr("MembershipQuery", g, d, v, m) :
        g \in QueryGroups, d \in QueryDsts, v \in Versions, m \in MaxRespTimes}
    \cup {IgmpRepr(k, UNSPECIFIED, MULTICAST_ALL_SYSTEMS, 2, 0) :
            k \in IgmpKinds \ {"MembershipQuery"}}

noigmp == <<setall, mutexvars, loopvars, tunvars, txlog>>

\* The owner of the Interface joins and leaves groups and feeds it IGMP
\* payloads, one call at a time.
NextGroups ==
    /\ UNCHANGED noigmp
    /\ \/ \E a \in Addrs \cup {Ipv6Addr} : \E x \in BOOLEAN : joinCall(a, x)
       \/ \E a \in Addrs \cup {Ipv6Addr} : \E x \in BOOLEAN : leaveCall(a, x)
       \/ \E r \in Reprs : queryCall(Caller, r)
       \/ tick /\ UNCHANGED ilast

SpecGroups == InitTokens /\ [][NextGroups]_vars

\* One thread drives the whole IGMP machine: membership changes, queries,
\* egress on any queue, and time.
NextIgmp ==
    /\ UNCHANGED <<noigmp, ilast>>
    /\ \/ \E a \in Addrs : \E x \in BOOLEAN : join_multicast_group(a, x)
       \/ \E a \in Addrs : \E x \in BOOLEAN : leave_multicast_group(a, x)
       \/ \E r \in Reprs : process_igmp(Caller, r)
       \/ \E q \in Queues : egress_enter(Caller, q)
       \/ egress_lock(Caller)
       \/ \E x \in BOOLEAN : egress_match(Caller, x)
       \/ tick
       \/ tick_to_timeout

SpecIgmp == InitTokens /\ [][NextIgmp]_vars

\* The tables and the pending reports a response can start from: a table
\* of 0 .. capacity groups (joined in one order: egress never looks at the
\* addresses), any ToGeneralQuery with next_index within the table, any
\* ToSpecificQuery.
JoinOrder == <<"224.0.0.22", "239.1.1.1", "224.0.0.251">>
Tables ==
    {SubSeq(JoinOrder, 1, n) : n \in 0 .. IFACE_MAX_MULTICAST_GROUP_COUNT}
\* The intervals process_igmp stores: 100 ms for version 1, a quotient of
\* max_resp_time for version 2.
Intervals(v) == IF v = 1 THEN {IGMP_V1_INTERVAL} ELSE {0, 1}
PendingStates(G) ==
    UNION {{ToGeneralQuery(v, t, i, n) :
               t \in 0 .. MaxNow, i \in Intervals(v), n \in 0 .. Len(G)} :
           v \in Versions}
    \cup {ToSpecificQuery(v, t, JoinOrder[1]) : v \in Versions, t \in 0 .. MaxNow}

\* A report is pending at time 0; ilast keeps the table and the state the
\* response starts from.
InitPending ==
    /\ SetInit /\ owned /\ sockets = << >>
    /\ MutexInit /\ LoopInit /\ TunInit
    /\ groups \in Tables
    /\ igmp_report_state \in PendingStates(groups)
    /\ igmp_lock = None
    /\ frag = [q \in Queues |-> None]
    /\ ith = [t \in Threads |-> IIdle]
    /\ now = 0
    /\ emitted = << >>
    /\ ilast = [NoIgmpCall EXCEPT !.op = "pending", !.before = groups,
                                  !.after = groups,
                                  !.state_before = igmp_report_state,
                                  !.state_after = igmp_report_state]

\* No query arrives and the table is left alone: the workers call
\* igmp_egress on any queue, with or without a TxToken, while time passes.
NextEgress ==
    /\ UNCHANGED <<noigmp, ilast>>
    /\ \/ \E t \in Threads : \E q \in Queues : egress_enter(t, q)
       \/ \E t \in Threads : egress_lock(t)
       \/ \E t \in Threads : \E x \in BOOLEAN : egress_match(t, x)
       \/ tick
       \/ tick_to_timeout

\* now advances past the stored timeout; every worker keeps calling
\* igmp_egress and, again and again, finds a fragmenter free, gets the state
\* mutex and is handed a TxToken.
FairEgress ==
    /\ WF_vars(tick_to_timeout /\ UNCHANGED <<noigmp, ilast>>)
    /\ \A t \in Threads :
          /\ SF_vars(/\ UNCHANGED <<noigmp, ilast>>
                     /\ \E q \in Queues : frag[q] = None /\ egress_enter(t, q))
          /\ SF_vars(egress_lock(t) /\ UNCHANGED <<noigmp, ilast>>)
          /\ SF_vars(egress_match(t, TRUE) /\ UNCHANGED <<noigmp, ilast>>)

SpecIgmpTerm == InitPending /\ [][NextEgress]_vars /\ FairEgress

\* The workers answering one general query: the table was filled by joins
\* in any order, one general query is accepted, and after it only
\* igmp_egress calls and time.
GroupTables ==
    {G \in UNION {[1 .. n -> Addrs] : n \in 1 .. IFACE_MAX_MULTICAST_GROUP_COUNT} :
        \A i, j \in DOMAIN G : i # j => G[i] # G[j]}
GeneralQueries ==
    {IgmpRepr("MembershipQuery", UNSPECIFIED, MULTICAST_ALL_SYSTEMS, v, m) :
        v \in Versions, m \in MaxRespTimes}

InitWorkers ==
    /\ SetInit /\ owned /\ sockets = << >>
    /\ MutexInit /\ LoopInit /\ TunInit
    /\ groups \in GroupTables
    /\ igmp_report_state = Inactive
    /\ igmp_lock = None
    /\ frag = [q \in Queues |-> None]
    /\ ith = [t \in Threads |-> IIdle]
    /\ now = 0
    /\ emitted = << >>
    /\ ilast = NoIgmpCall

NextWorkers ==
    /\ UNCHANGED noigmp
    /\ \/ /\ ilast.op = "none"
          /\ \E t \in Threads : \E r \in GeneralQueries : queryCall(t, r)
       \/ /\ UNCHANGED ilast
          /\ \/ \E t \in Threads : \E q \in Queues : egress_enter(t, q)
             \/ \E t \in Threads : egress_lock(t)
             \/ \E t \in Threads : egress_read(t)
             \/ \E t \in Threads : \E x \in BOOLEAN : egress_write(t, x)
             \/ tick
             \/ tick_to_timeout

SpecIgmpWorkers == InitWorkers /\ [][NextWorkers]_vars

\* Queries arriving while a response is pending: the table holds one or
\* two groups and is left alone; general queries, group-specific queries
\* for the first group, a group-specific query sent to the wrong
\* destination and a report are fed in at any time, each call recorded in
\* ilast, with igmp_egress calls on any queue and time in between.
QueryMix ==
    GeneralQueries
    \cup {IgmpRepr("MembershipQuery", JoinOrder[1], JoinOrder[1], v, m) :
            v \in Versions, m \in MaxRespTimes}
    \cup {IgmpRepr("MembershipQuery", JoinOrder[1], MULTICAST_ALL_SYSTEMS, 2, 0),
          IgmpRepr("MembershipReport", UNSPECIFIED, MULTICAST_ALL_SYSTEMS, 2, 0)}

InitQueries ==
    /\ SetInit /\ owned /\ sockets = << >>
    /\ MutexInit /\ LoopInit /\ TunInit
    /\ groups \in Tables \ {<< >>}
    /\ igmp_report_state = Inactive
    /\ igmp_lock = None
    /\ frag = [q \in Queues |-> None]
    /\ ith = [t \in Threads |-> IIdle]
    /\ now = 0
    /\ emitted = << >>
    /\ ilast = NoIgmpCall

NextQueries ==
    /\ UNCHANGED noigmp
    /\ \/ \E r \in QueryMix : queryCall(Caller, r)
       \/ /\ UNCHANGED ilast
          /\ \/ \E q \in Queues : egress_enter(Caller, q)
             \/ egress_lock(Caller)
             \/ \E x \in BOOLEAN : egress_match(Caller, x)
             \/ tick
             \/ tick_to_timeout

SpecIgmpQueries == InitQueries /\ [][NextQueries]_vars

----------------------------------------------------------------------------
(* Properties.                                                             *)

Empties(S) == {i \in 0 .. (Len(S) - 1) : ~IsSome(Slot(S, i))}
Lowest(E) == CHOOSE i \in E : \A j \in E : i <= j

\* The threads inside socket.process(..) on slot h, inside accepts(..) on
\* slot h, and using the socket of slot h in the server loop.
Processing(h) == {t \in Threads : th[t].pc = "process" /\ th[t].idx = h}
Accepting(h) == {t \in Threads : th[t].pc = "accepts" /\ th[t].idx = h}
Serving(h) == {t \in Threads : th[t].pc = "app_hold" /\ th[t].idx = h}

\* C1: at most one writer.  For every socket of the set: at most one thread
\* is inside process, no thread is inside accepts (under its read guard)
\* and no application thread uses the socket while a thread is inside
\* process, and a thread inside process holds the socket's write lock.
C1_AtMostOneWriter ==
    \A h \in Live(sockets) :
        /\ Cardinality(Processing(h)) <= 1
        /\ Processing(h) # {} => Accepting(h) = {} /\ Serving(h) = {}
        /\ \A t \in Processing(h) : ItemAt(sockets, h).writers = {t}
        /\ \A t \in Accepting(h) : t \in ItemAt(sockets, h).readers

\* A worker is inside process on a socket while the other worker, which
\* matched the same socket, waits for the write lock.
C1_Witness ==
    \E t \in Threads, u \in Threads :
        /\ t # u
        /\ th[t].pc = "process" /\ th[u].pc = "write"
        /\ th[t].idx = th[u].idx

\* C2: queue-id bounds.  After any sequence of add, remove, process_tcp
\* and process_udp calls with queue ids in [0, QUEUE_COUNT), every live
\* Item's queue_id is in [0, QUEUE_COUNT), also once the counter wrapped.
C2_QueueIdBounds ==
    \A h \in Live(sockets) :
        ItemAt(sockets, h).queue_id \in 0 .. (QUEUE_COUNT - 1)

\* The counter has wrapped to 0 with a socket in the set whose queue was
\* set by an ingress match on queue 1.
C2_Witness ==
    /\ counter = 0
    /\ th[Caller].ret.kind = "matched"
    /\ \E h \in Live(sockets) :
          ItemAt(sockets, h).queue_id = 1 /\ h % QUEUE_COUNT = 0

\* C3: affinity follow.  The queue_id of a socket changes only in the
\* queue_id update of a thread that matched this socket, and becomes that
\* call's queue; after the update the socket's queue_id is the call's
\* queue; and the server loop of queue Q' takes a socket only when its
\* queue_id is Q'.
C3_Step ==
    /\ \A h \in Live(sockets) \cap Live(sockets') :
          ItemAt(sockets', h).queue_id # ItemAt(sockets, h).queue_id
          => \E t \in Threads :
                /\ th[t].pc = "steer" /\ th[t].idx = h
                /\ th'[t].pc = "write"
                /\ ItemAt(sockets', h).queue_id = th[t].qid
    /\ \A t \in Threads :
          /\ th[t].pc = "steer" /\ th'[t].pc = "write"
             => ItemAt(sockets', th[t].idx).queue_id = th[t].qid
          /\ th[t].pc = "idle" /\ th'[t].pc = "app_write"
             => ItemAt(sockets, th'[t].idx).queue_id = th'[t].qid

C3_AffinityFollow == [][C3_Step]_vars

\* A worker processes a socket it steered away from the queue add gave it,
\* while the other worker is in its server loop on another socket.
C3_Witness ==
    \E t \in Threads, u \in Threads :
        /\ th[t].pc = "process"
        /\ ItemAt(sockets, th[t].idx).queue_id = th[t].qid
        /\ th[t].qid # th[t].idx % QUEUE_COUNT
        /\ th[u].pc = "app_hold" /\ th[u].idx # th[t].idx

\* C4: TCP fallback.  When process_tcp matched no socket it returns no
\* reply if the segment is a RST or the source or destination address is
\* unspecified, and a RST otherwise.
C4_TcpFallback ==
    \A t \in Threads :
        LET r == th[t].ret IN
        (r.kind = "fallback" /\ r.call = "tcp") =>
            /\ \A h \in Live(sockets) : ~accepts("tcp", ItemAt(sockets, h).socket)
            /\ IF r.control = "Rst" \/ r.src_unspec \/ r.dst_unspec
               THEN r.reply = None
               ELSE IsSome(r.reply) /\ Unwrap(r.reply).kind = "TcpRst"

\* A RST that no socket took, with both addresses specified, got no reply,
\* although the set holds TCP sockets.
C4_Witness ==
    LET r == th[Caller].ret IN
    /\ r.kind = "fallback" /\ r.call = "tcp"
    /\ r.control = "Rst" /\ ~r.src_unspec /\ ~r.dst_unspec
    /\ r.reply = None
    /\ \E h \in Live(sockets) : ItemAt(sockets, h).socket.proto = "tcp"

\* C5: UDP fallback.  When process_udp matched no UDP and no DNS socket it
\* returns None if handled_by_raw_socket, else an ICMP port-unreachable
\* whose data is the first icmp_reply_payload_len(len, min MTU, header
\* length) bytes of the payload; when a socket matched it returns None.
C5_UdpFallback ==
    \A t \in Threads :
        LET r == th[t].ret IN
        /\ (r.kind = "fallback" /\ r.call = "udp") =>
            /\ \A h \in Live(sockets) :
                  /\ ~accepts("udp", ItemAt(sockets, h).socket)
                  /\ ~accepts("dns", ItemAt(sockets, h).socket)
            /\ IF r.raw THEN r.reply = None
               ELSE /\ IsSome(r.reply)
                    /\ Unwrap(r.reply).kind =
                          (IF r.version = 4 THEN "Icmpv4PortUnreachable"
                           ELSE "Icmpv6PortUnreachable")
                    /\ Unwrap(r.reply).data =
                          (IF r.version = 4
                           THEN icmp_reply_payload_len(r.len, IPV4_MIN_MTU, IPV4_HEADER_LEN)
                           ELSE icmp_reply_payload_len(r.len, IPV6_MIN_MTU, IPV6_HEADER_LEN))
                    /\ Unwrap(r.reply).data <= r.len
        /\ (r.kind = "matched" /\ r.call = "udp") => r.reply = None

\* An IPv4 datagram longer than the ICMP budget, not handled by a raw
\* socket, that no socket took: the reply quotes a truncated payload.
C5_Witness ==
    LET r == th[Caller].ret IN
    /\ r.kind = "fallback" /\ r.call = "udp"
    /\ ~r.raw /\ r.version = 4
    /\ IsSome(r.reply) /\ Unwrap(r.reply).data < r.len
    /\ \E h \in Live(sockets) : ItemAt(sockets, h).socket.proto = "udp"

\* C6: handle stability.  As long as the handle h returned by add(s) has
\* not been removed, whatever was added or removed meanwhile, remove(h)
\* returns exactly s and empties slot h; a handle that was removed names
\* an empty slot, which the next add may hand out again.
C6_HandleStability ==
    \A h \in 0 .. (MaxSlots - 1) :
        IF IsSome(given[h])
        THEN /\ h < Len(sockets)
             /\ ~removeResult(sockets, h).panic
             /\ removeResult(sockets, h).socket = given[h]
             /\ ~IsSome(Slot(removeResult(sockets, h).sockets, h))
             /\ \A k \in 0 .. (Len(sockets) - 1) \ {h} :
                   Slot(removeResult(sockets, h).sockets, k) = Slot(sockets, k)
        ELSE h < Len(sockets) => h \in Empties(sockets)

\* Slot 0 was removed and handed out again by a later add while the
\* socket added before it is still held under handle 1.
C6_Witness ==
    /\ IsSome(given[0]) /\ IsSome(given[1])
    /\ Unwrap(given[0]).tag > Unwrap(given[1]).tag
    /\ removeResult(sockets, 1).socket = given[1]

\* C7: slot allocation.  add takes the lowest empty slot, appends one slot
\* only when none is empty and the storage is growable, returns the index
\* of the slot as the handle, stores it in meta.handle and leaves every
\* other slot as it was; so each live Item's meta.handle is its slot index.
C7_Step ==
    adds' = adds + 1 =>
        LET h == last'.handle
            E == Empties(sockets) IN
        /\ last'.op = "add"
        /\ IF E # {}
           THEN h = Lowest(E) /\ Len(sockets') = Len(sockets)
           ELSE owned /\ h = Len(sockets) /\ Len(sockets') = Len(sockets) + 1
        /\ ItemAt(sockets', h).meta.handle = h
        /\ Some(ItemAt(sockets', h).socket) = last'.socket
        /\ \A k \in 0 .. (Len(sockets) - 1) \ {h} : Slot(sockets', k) = Slot(sockets, k)

C7_HandlesAreIndexes ==
    \A h \in Live(sockets) : ItemAt(sockets, h).meta.handle = h

C7_SlotAllocation == [](C7_HandlesAreIndexes) /\ [][C7_Step]_vars

\* add filled slot 0 while a higher slot was empty as well.
C7_Witness ==
    /\ last.op = "add" /\ last.handle = 0
    /\ Len(sockets) >= 2
    /\ Cardinality(Empties(sockets)) >= 1

\* C8: round-robin initial affinity.  The i-th successful add of the set's
\* lifetime (from 0, i wrapping at the machine word) creates its Item with
\* queue_id = i mod QUEUE_COUNT, whatever was removed or reused; remove
\* leaves the counter alone.
C8_RoundRobin ==
    /\ counter = adds % UsizeMod
    /\ last.op = "add" =>
          ItemAt(sockets, last.handle).queue_id =
              ((adds - 1) % UsizeMod) % QUEUE_COUNT

\* After the counter wrapped, an add reused slot 1 and got a queue other
\* than the one slot 1 would suggest.
C8_Witness ==
    /\ last.op = "add" /\ last.handle = 1
    /\ adds > UsizeMod
    /\ ItemAt(sockets, 1).queue_id = 0

\* C9: spin mutex mutual exclusion.  At most one guard is live; the flag is
\* set exactly while a guard is live; try_lock is always able to take its
\* step and returns Ok exactly when no guard was live, leaving the owner's
\* guard alone on Err; dropping the guard clears the flag, so that the
\* next try_lock succeeds.
TryLockStep(t) ==
    /\ mth[t].pc \in {"idle", "held"}
    /\ mth'[t] # mth[t]
    /\ mth'[t].res # "none"
    /\ mth'[t].pc # "lock"

C9_Inv ==
    /\ Cardinality(Guards) <= 1
    /\ lock <=> Guards # {}
    /\ \A t \in MutexThreads : mth[t].pc \in {"idle", "held"} => ENABLED try_lock(t)

C9_Step ==
    \A t \in MutexThreads :
        /\ TryLockStep(t) =>
              /\ mth'[t].res = "Ok" <=> Guards = {}
              /\ mth'[t].res = "Ok" => Guards' = {t}
              /\ mth'[t].res = "Err" => Guards' = Guards /\ lock'
        /\ (mth[t].pc = "held" /\ mth'[t].pc = "idle") => ~lock' /\ Guards' = {}

C9_MutualExclusion == [](C9_Inv) /\ [][C9_Step]_vars

\* One thread holds the guard, a second got Err from try_lock and a third
\* spins in lock.
C9_Witness ==
    \E t \in MutexThreads, u \in MutexThreads, w \in MutexThreads :
        /\ mth[t].pc = "held"
        /\ mth[u].pc = "idle" /\ mth[u].res = "Err"
        /\ mth[w].pc = "lock"
        /\ inner = 1

\* C10: loopback receive and transmit are non-blocking.  No call waits for
\* the queue's lock, held by a token of this or another caller, and every
\* call returns: receive gives None on an empty queue and the token pair
\* for the oldest frame otherwise, transmit gives a TxToken.
C10_NonBlocking ==
    \A t \in Threads :
        /\ lth[t].pc \in {"recv_lock", "tx_lock"} => lock_acquirable(lth[t].q)
        /\ lth[t].pc \notin {"deadlocked", "panicked"}

\* C11: loopback FIFO per queue.  The frames committed on queue q are, in
\* commit order, the frames receive on q has delivered followed by the
\* frames still waiting in queue q: each committed frame is delivered once,
\* by its own queue, in order, and none is lost.
C11_LoopbackFifo ==
    \A q \in Queues : committed[q] = delivered[q] \o queue[q]

\* The frames device dev holds for queue q: pushed to the loopback FIFO, or
\* accepted by the TUN/TAP descriptor.
Stored(dev, q) == IF dev = "loopback" THEN Len(committed[q]) ELSE WireCount(q)

\* C12 as stated: for both backends TxToken::consume commits the buffer to
\* the device if and only if f returned, and a dropped token commits nothing.
C12_CommitIffReturned ==
    /\ txlog.op = "consume" =>
          /\ Stored(txlog.dev, txlog.q) \in {txlog.before, txlog.before + 1}
          /\ Stored(txlog.dev, txlog.q) = txlog.before + 1 <=> txlog.f_returned
    /\ txlog.op = "drop" => Stored(txlog.dev, txlog.q) = txlog.before

\* C12, amended: consume commits exactly one buffer if f returned and, on
\* TUN/TAP, the descriptor's write succeeded; it commits nothing if f did not
\* return or the write reported an error (WouldBlock: the frame is dropped
\* and consume returns; any other error: panic).  A dropped token commits
\* nothing.
C12_CommitIffWritten ==
    /\ txlog.op = "consume" =>
          /\ Stored(txlog.dev, txlog.q) \in {txlog.before, txlog.before + 1}
          /\ Stored(txlog.dev, txlog.q) = txlog.before + 1 <=>
                (txlog.f_returned /\ (txlog.dev = "loopback" \/ txlog.io = "Ok"))
    /\ txlog.op = "drop" => Stored(txlog.dev, txlog.q) = txlog.before

\* After a loopback consume committed a frame, a TUN/TAP consume whose f
\* returned met WouldBlock: consume returned and the descriptor got nothing.
C12_Witness ==
    /\ txlog.dev = "tuntap" /\ txlog.op = "consume"
    /\ txlog.f_returned /\ txlog.io = "WouldBlock" /\ txlog.ret = "result"
    /\ WireCount(txlog.q) = txlog.before
    /\ \E q \in Queues : committed[q] # << >>

\* C13: TUN/TAP would-block handling.  receive whose read reports WouldBlock
\* returns None and leaves the descriptor unlocked; consume whose write
\* reports WouldBlock drops the frame and still returns f's result; neither
\* panics.  Any other I/O error panics, and nothing else does except f.
C13_WouldBlock ==
    txlog.dev = "tuntap" =>
      /\ (txlog.op = "receive" /\ txlog.io = "WouldBlock") =>
            /\ txlog.ret = "None"
            /\ lower[txlog.q] = Unlocked
            /\ \A t \in Threads : txlog.q \notin tth[t].tokens
      /\ (txlog.op = "consume" /\ txlog.io = "WouldBlock") =>
            /\ txlog.ret = "result"
            /\ WireCount(txlog.q) = txlog.before
            /\ lower[txlog.q] = Unlocked
      /\ txlog.io = "Other" =>
            txlog.ret = "panic" /\ lower[txlog.q].poisoned
      /\ txlog.ret = "panic" =>
            txlog.io = "Other" \/ (txlog.op = "consume" /\ ~txlog.f_returned)

\* receive met WouldBlock on a queue whose descriptor had accepted a frame
\* before, while the other queue's token is held.
C13_Witness ==
    /\ txlog.dev = "tuntap" /\ txlog.op = "receive" /\ txlog.io = "WouldBlock"
    /\ WireCount(txlog.q) > 0
    /\ \E t \in Threads : tth[t].tokens # {}

\* What join/leave hand to the device: one packet on queue 0 at the call's
\* time.
Announce(pkt, at) == << [pkt |-> Unwrap(pkt), queue |-> 0, at |-> at] >>
IsJoin == ilast.op = "join" /\ ilast.addr \in Addrs
IsLeave == ilast.op = "leave" /\ ilast.addr \in Addrs
Full(G) == Len(G) >= IFACE_MAX_MULTICAST_GROUP_COUNT

\* C14: multicast table capacity.  The table never holds more groups than
\* its capacity, and join_multicast_group of an address that is not in a
\* full table returns GroupTableFull, changes neither the table nor
\* igmp_report_state and transmits nothing.
C14_TableCapacity ==
    /\ Len(groups) <= IFACE_MAX_MULTICAST_GROUP_COUNT
    /\ (IsJoin /\ ~InTable(ilast.before, ilast.addr) /\ Full(ilast.before)) =>
          /\ ilast.ret = "GroupTableFull"
          /\ ilast.after = ilast.before
          /\ ilast.state_after = ilast.state_before
          /\ ilast.sent = << >>

\* A join was refused on a full table while a report was pending.
C14_Witness ==
    /\ IsJoin /\ ilast.ret = "GroupTableFull"
    /\ Full(groups)
    /\ igmp_report_state.kind # "Inactive"

\* C15 as stated: join of an IPv4 address not in the table inserts it, emits
\* one IGMPv2 report on queue 0 and returns Ok(true); join of a member
\* returns Ok(false), sends nothing, changes nothing; leave of a member
\* removes it, emits one leave on queue 0 and returns Ok(true); leave of a
\* non-member returns Ok(false) and sends nothing.
C15_AnnounceOnChange ==
    /\ (IsJoin /\ ~InTable(ilast.before, ilast.addr)) =>
          /\ ilast.after = Append(ilast.before, ilast.addr)
          /\ ilast.sent = Announce(igmp_report_packet(2, ilast.addr), ilast.at)
          /\ ilast.ret = "Ok(true)"
    /\ (IsJoin /\ InTable(ilast.before, ilast.addr)) =>
          ilast.ret = "Ok(false)" /\ ilast.sent = << >> /\ ilast.after = ilast.before
    /\ (IsLeave /\ InTable(ilast.before, ilast.addr)) =>
          /\ ~InTable(ilast.after, ilast.addr)
          /\ Len(ilast.after) = Len(ilast.before) - 1
          /\ ilast.sent = Announce(igmp_leave_packet(ilast.addr), ilast.at)
          /\ ilast.ret = "Ok(true)"
    /\ (IsLeave /\ ~InTable(ilast.before, ilast.addr)) =>
          ilast.ret = "Ok(false)" /\ ilast.sent = << >> /\ ilast.after = ilast.before

\* C15, amended: the announcement and Ok(true) need a table with room and a
\* TxToken.  A join of a new address into a full table returns
\* GroupTableFull and changes nothing; a join or leave that changed the
\* table but got no TxToken returns Exhausted, has sent nothing and keeps
\* the change.
C15_AnnounceWhenSent ==
    /\ (IsJoin /\ ~InTable(ilast.before, ilast.addr) /\ Full(ilast.before)) =>
          ilast.ret = "GroupTableFull" /\ ilast.sent = << >>
          /\ ilast.after = ilast.before
    /\ (IsJoin /\ ~InTable(ilast.before, ilast.addr) /\ ~Full(ilast.before)) =>
          /\ ilast.after = Append(ilast.before, ilast.addr)
          /\ IF ilast.tx_avail
             THEN /\ ilast.sent = Announce(igmp_report_packet(2, ilast.addr), ilast.at)
                  /\ ilast.ret = "Ok(true)"
             ELSE ilast.sent = << >> /\ ilast.ret = "Exhausted"
    /\ (IsJoin /\ InTable(ilast.before, ilast.addr)) =>
          ilast.ret = "Ok(false)" /\ ilast.sent = << >> /\ ilast.after = ilast.before
    /\ (IsLeave /\ InTable(ilast.before, ilast.addr)) =>
          /\ ~InTable(ilast.after, ilast.addr)
          /\ Len(ilast.after) = Len(ilast.before) - 1
          /\ \A a \in Addrs \ {ilast.addr} :
                InTable(ilast.after, a) <=> InTable(ilast.before, a)
          /\ IF ilast.tx_avail
             THEN /\ ilast.sent = Announce(igmp_leave_packet(ilast.addr), ilast.at)
                  /\ ilast.ret = "Ok(true)"
             ELSE ilast.sent = << >> /\ ilast.ret = "Exhausted"
    /\ (IsLeave /\ ~InTable(ilast.before, ilast.addr)) =>
          ilast.ret = "Ok(false)" /\ ilast.sent = << >> /\ ilast.after = ilast.before

\* The first of two members left with a TxToken at hand: one leave packet
\* went out on queue 0 and the other member stayed.
C15_Witness ==
    /\ IsLeave /\ ilast.ret = "Ok(true)"
    /\ Len(ilast.before) = 2 /\ ilast.before[1] = ilast.addr
    /\ ilast.after = << ilast.before[2] >>
    /\ Len(ilast.sent) = 1 /\ ilast.sent[1].pkt.kind = "leave"

\* C16: igmp_report_state leaves a non-Inactive state for Inactive only in
\* the match of an igmp_egress call, and there only after that call sent
\* the report of a ToSpecificQuery, or when a ToGeneralQuery has no group
\* at next_index.
C16_Step ==
    (igmp_report_state.kind # "Inactive" /\ igmp_report_state'.kind = "Inactive") =>
        \E t \in Threads :
            /\ ith[t].pc = "match" /\ ith'[t].pc = "idle"
            /\ \/ /\ igmp_report_state.kind = "ToSpecificQuery"
                  /\ emitted' = Append(emitted,
                        dispatch_ip(Unwrap(igmp_report_packet(
                                        igmp_report_state.version,
                                        igmp_report_state.group)),
                                    ith[t].q, ith[t].at))
                  /\ ith'[t].ret = "true"
               \/ /\ igmp_report_state.kind = "ToGeneralQuery"
                  /\ igmp_report_state.next_index >= Len(groups)
                  /\ emitted' = emitted
                  /\ ith'[t].ret = "false"

C20_GeneralQuery ==
    (/\ ilast.op = "process_igmp"
     /\ ilast.repr.kind = "MembershipQuery"
     /\ ilast.repr.group_addr = UNSPECIFIED
     /\ ilast.repr.dst_addr = MULTICAST_ALL_SYSTEMS) =>
        IF ilast.before = << >>
        THEN ilast.state_after = ilast.state_before
        ELSE LET interval == IF ilast.repr.version = 2
                             THEN ilast.repr.max_resp_time \div (Len(ilast.before) + 1)
                             ELSE 100 * 1000
             IN  ilast.state_after =
                    [kind |-> "ToGeneralQuery", version |-> ilast.repr.version,
                     timeout |-> ilast.at + interval, interval |-> interval,
                     next_index |-> 0, group |-> "none"]

\* A version-2 general query arrived after time 0 with two groups joined
\* and replaced a pending group-specific report.
C20_Witness ==
    /\ ilast.op = "process_igmp" /\ ilast.repr.kind = "MembershipQuery"
    /\ ilast.repr.group_addr = UNSPECIFIED
    /\ ilast.repr.dst_addr = MULTICAST_ALL_SYSTEMS
    /\ ilast.repr.version = 2 /\ ilast.repr.max_resp_time = 5
    /\ Len(ilast.before) = 2 /\ ilast.at > 0
    /\ ilast.state_before.kind = "ToSpecificQuery"
    /\ ilast.state_after.kind = "ToGeneralQuery" /\ ilast.state_after.interval = 1

\* C17: a pending general response whose next_index is within the table, or
\* a pending group-specific response, ends in Inactive once no query arrives,
\* now passes the timeout and igmp_egress keeps being called with the
\* fragmenter and a TxToken available; a general response emits at most
\* |table| - next_index reports on the way, a group-specific one at most one.
C17_ReportBound ==
    Len(emitted) <= (IF ilast.state_before.kind = "ToGeneralQuery"
                     THEN Len(groups) - ilast.state_before.next_index
                     ELSE 1)
C17_Termination ==
    /\ <>(igmp_report_state.kind = "Inactive")
    /\ [](ilast.op = "pending" => C17_ReportBound)
C17_Witness ==
    /\ ilast.op = "pending"
    /\ ilast.state_before.kind = "ToGeneralQuery"
    /\ ilast.state_before.next_index = 1
    /\ ilast.state_before.timeout > 0
    /\ Len(groups) = 2
    /\ Len(emitted) = 1
    /\ igmp_report_state.kind = "Inactive"

\* C18: general query response.  After a general query was accepted on a
\* table of n >= 1 groups, with the table left alone and no further query,
\* the igmp_egress calls of the workers, on any queues and in any
\* interleaving, have emitted at every moment exactly the reports for the
\* first next_index groups of the table, in table order and none twice,
\* all n of them once the state is Inactive again; and the due call that
\* finds next_index = n emits nothing, returns false and sets Inactive.
C18_Reports ==
    LET k == IF igmp_report_state.kind = "ToGeneralQuery"
             THEN igmp_report_state.next_index ELSE Len(groups)
    IN  /\ k <= Len(groups)
        /\ Len(emitted) = k
        /\ \A i \in 1 .. Len(emitted) :
              emitted[i].pkt = Unwrap(igmp_report_packet(ilast.repr.version,
                                                         groups[i]))
C18_LastCall ==
    \A t \in Threads :
        (/\ ilast.op = "process_igmp"
         /\ ith[t].pc = "matched" /\ ith'[t].pc = "idle"
         /\ igmp_report_state.kind = "ToGeneralQuery"
         /\ igmp_report_state.next_index = Len(groups)
         /\ ith[t].at >= igmp_report_state.timeout) =>
            /\ igmp_report_state' = Inactive
            /\ emitted' = emitted
            /\ ith'[t].ret = "false"
C18_GeneralResponse ==
    /\ [](ilast.op = "process_igmp" => C18_Reports)
    /\ [][C18_LastCall]_vars
\* Two groups joined out of address order were reported in table order,
\* one by a call on queue 1 and one by a call on queue 0, and the response
\* is over.
C18_Witness ==
    /\ ilast.op = "process_igmp"
    /\ groups = <<"239.1.1.1", "224.0.0.22">>
    /\ igmp_report_state = Inactive
    /\ Len(emitted) = 2
    /\ emitted[1].queue = 1 /\ emitted[2].queue = 0
    /\ \E t \in Threads : ith[t].ret = "false" /\ ith[t].pc = "idle"

\* C19: remove does not race with an in-flight process.  A worker that
\* matched a socket, from the accepts test under the read guard to the
\* return of process, finds the socket in its slot, and while it is between
\* acquiring the write guard and releasing it the slot holds that socket
\* with the guard: no remove has taken the socket out from under it.
InFlight == {"accepts", "steer", "write", "process"}
C21_SpecificQuery ==
    (/\ ilast.op = "process_igmp"
     /\ ilast.repr.kind = "MembershipQuery"
     /\ ~(/\ ilast.repr.group_addr = UNSPECIFIED
          /\ ilast.repr.dst_addr = MULTICAST_ALL_SYSTEMS)) =>
        IF /\ \E i \in 1 .. Len(ilast.before) :
                 ilast.before[i] = ilast.repr.group_addr
           /\ ilast.repr.dst_addr = ilast.repr.group_addr
        THEN ilast.state_after =
                [kind |-> "ToSpecificQuery", version |-> ilast.repr.version,
                 timeout |-> ilast.at + (ilast.repr.max_resp_time \div 4),
                 interval |-> 0, next_index |-> 0,
                 group |-> ilast.repr.group_addr]
        ELSE ilast.state_after = ilast.state_before
\* A query for a joined group, sent to that group after time 0, replaced a
\* pending general response; the timeout is 5 div 4 = 1 after the call.
C21_Witness ==
    /\ ilast.op = "process_igmp" /\ ilast.repr.kind = "MembershipQuery"
    /\ ilast.repr.group_addr = "224.0.0.22"
    /\ ilast.repr.dst_addr = "224.0.0.22"
    /\ ilast.repr.max_resp_time = 5 /\ ilast.at > 0
    /\ ilast.state_before.kind = "ToGeneralQuery"
    /\ ilast.state_after.kind = "ToSpecificQuery"
    /\ ilast.state_after.timeout = ilast.at + 1

\* C22: process_igmp returns no packet and leaves the multicast table as it
\* was, whatever the payload; a MembershipReport, a LeaveGroup and a
\* malformed payload also leave igmp_report_state as it was.
C22_ProcessIgmpFrame ==
    ilast.op = "process_igmp" =>
        /\ ilast.ret = "None"
        /\ ilast.after = ilast.before
        /\ ilast.repr.kind \in {"MembershipReport", "LeaveGroup", "malformed"} =>
              ilast.state_after = ilast.state_before
\* A MembershipReport arrived while a response was pending and groups were
\* joined.
C22_Witness ==
    /\ ilast.op = "process_igmp" /\ ilast.repr.kind = "MembershipReport"
    /\ ilast.state_before.kind = "ToSpecificQuery"
    /\ ilast.state_after = ilast.state_before
    /\ Len(ilast.after) = 2 /\ ilast.ret = "None"

\* The report for group g of version v sent on queue q by a call made at
\* time at, and the steps in which worker t's igmp_egress call, holding the
\* fragmenter and the state mutex, finds the state due.
ReportOn(v, g, q, at) ==
    [pkt |-> [kind |-> "report", version |-> v, group |-> g],
     queue |-> q, at |-> at]
Due(t, kind) ==
    /\ ith[t].pc = "match"
    /\ igmp_report_state.kind = kind
    /\ ith[t].at >= igmp_report_state.timeout

\* C23: igmp_egress in ToSpecificQuery with now >= timeout.  With a
\* TxToken from device.transmit(now, queue_id) exactly one report for the
\* state's group goes out on that queue, the state becomes Inactive and the
\* call returns true; without one nothing goes out, the state stays the
\* same ToSpecificQuery and the call returns false.
C23_Step ==
    \A t \in Threads :
        Due(t, "ToSpecificQuery") =>
            /\ egress_match(t, TRUE) =>
                  /\ emitted' = Append(emitted,
                                       ReportOn(igmp_report_state.version,
                                                igmp_report_state.group,
                                                ith[t].q, ith[t].at))
                  /\ igmp_report_state' = Inactive
                  /\ ith'[t].pc = "idle" /\ ith'[t].ret = "true"
            /\ egress_match(t, FALSE) =>
                  /\ emitted' = emitted
                  /\ igmp_report_state' = igmp_report_state
                  /\ ith'[t].pc = "idle" /\ ith'[t].ret = "false"
C23_SpecificEgress == [][C23_Step]_vars
\* A call on queue 1 made after the timeout answered a group-specific
\* query whose timeout was in the future when it was accepted.
C23_Witness ==
    /\ igmp_report_state = Inactive
    /\ Len(emitted) = 1
    /\ emitted[1].pkt.kind = "report" /\ emitted[1].queue = 1
    /\ emitted[1].at > 1
    /\ ith[Caller].ret = "true" /\ ith[Caller].pc = "idle"

\* C24: igmp_egress in ToGeneralQuery{version, timeout, interval,
\* next_index} with now >= timeout.  With a group at position next_index of
\* the table and a TxToken, one report for that group goes out, the state
\* becomes ToGeneralQuery{version, max(timeout + interval, now), interval,
\* next_index + 1} and the call returns true; with no group at next_index
\* the state becomes Inactive and the call returns false; with the group
\* but no TxToken the state is unchanged and the call returns false.
C24_Step ==
    \A t \in Threads :
        Due(t, "ToGeneralQuery") =>
            LET s == igmp_report_state
                later == IF s.timeout + s.interval >= ith[t].at
                         THEN s.timeout + s.interval ELSE ith[t].at
            IN  IF s.next_index < Len(groups)
                THEN /\ egress_match(t, TRUE) =>
                          /\ emitted' = Append(emitted,
                                               ReportOn(s.version,
                                                        groups[s.next_index + 1],
                                                        ith[t].q, ith[t].at))
                          /\ igmp_report_state' =
                                [kind |-> "ToGeneralQuery", version |-> s.version,
                                 timeout |-> later, interval |-> s.interval,
                                 next_index |-> s.next_index + 1,
                                 group |-> "none"]
                          /\ ith'[t].pc = "idle" /\ ith'[t].ret = "true"
                     /\ egress_match(t, FALSE) =>
                          /\ emitted' = emitted
                          /\ igmp_report_state' = s
                          /\ ith'[t].pc = "idle" /\ ith'[t].ret = "false"
                ELSE \A x \in BOOLEAN :
                        egress_match(t, x) =>
                          /\ emitted' = emitted
                          /\ igmp_report_state' = Inactive
                          /\ ith'[t].pc = "idle" /\ ith'[t].ret = "false"
C24_GeneralEgress == [][C24_Step]_vars
\* The second report of a general response went out in a call made later
\* than timeout + interval: the next timeout is the call's time.
C24_Witness ==
    /\ igmp_report_state.kind = "ToGeneralQuery"
    /\ igmp_report_state.next_index = 2
    /\ igmp_report_state.interval = 0
    /\ Len(emitted) = 2 /\ Len(groups) = 2
    /\ emitted[2].at > emitted[1].at
    /\ igmp_report_state.timeout = emitted[2].at
    /\ ith[Caller].ret = "true"

\* C25: igmp_egress with nothing to do.  A call on a queue whose fragmenter
\* is held, a call that finds the state Inactive and a call made before
\* the state's timeout return false, ask the device for no TxToken, emit
\* nothing and leave igmp_report_state as it is; a call on a queue whose
\* fragmenter is free goes on, whatever the other queues' fragmenters.
C25_Nothing(t) ==
    /\ ith'[t].pc = "idle" /\ ith'[t].ret = "false" /\ ~ith'[t].asked
    /\ emitted' = emitted
    /\ igmp_report_state' = igmp_report_state
C25_Step ==
    \A t \in Threads :
        /\ \A q \in Queues :
              egress_enter(t, q) =>
                  IF frag[q] # << >>
                  THEN C25_Nothing(t) /\ frag' = frag
                  ELSE ith'[t].pc = "lock" /\ frag'[q] = << t >>
        /\ (/\ ith[t].pc = "match"
            /\ \/ igmp_report_state.kind = "Inactive"
               \/ ith[t].at < igmp_report_state.timeout) =>
              \A x \in BOOLEAN : egress_match(t, x) => C25_Nothing(t)
C25_EgressNoOp == [][C25_Step]_vars
\* While a report is pending, both fragmenters are held, each by its own
\* worker: one call is in the match before the timeout, the other entered
\* on the other queue and waits for the state mutex.
C25_Witness ==
    \E t \in Threads, u \in Threads :
        /\ t # u
        /\ frag[ith[t].q] = << t >> /\ frag[ith[u].q] = << u >>
        /\ ith[t].pc = "match" /\ ith[u].pc = "lock"
        /\ igmp_report_state.kind = "ToGeneralQuery"
        /\ ith[t].at < igmp_report_state.timeout

\* C26: leave_multicast_group never modifies igmp_report_state.  A pending
\* ToSpecificQuery for a group survives the leave of that group, and the
\* next due igmp_egress with a TxToken emits a membership report for the
\* group although it is no longer in the table.
C26_Step ==
    /\ \A a \in Addrs \cup {Ipv6Addr} : \A x \in BOOLEAN :
          leave_multicast_group(a, x) => igmp_report_state' = igmp_report_state
    /\ \A t \in Threads :
          (/\ Due(t, "ToSpecificQuery")
           /\ \A i \in 1 .. Len(groups) : groups[i] # igmp_report_state.group
           /\ egress_match(t, TRUE)) =>
              /\ emitted' = Append(emitted,
                                   ReportOn(igmp_report_state.version,
                                            igmp_report_state.group,
                                            ith[t].q, ith[t].at))
              /\ ith'[t].ret = "true"
C26_StaleReport == [][C26_Step]_vars
\* The only packet out is a report for a group that is not in the table:
\* the leave sent nothing, the egress call after it sent the report.
C26_Witness ==
    /\ igmp_report_state = Inactive
    /\ Len(emitted) = 1 /\ emitted[1].pkt.kind = "report"
    /\ \A i \in 1 .. Len(groups) : groups[i] # emitted[1].pkt.group
    /\ ith[Caller].ret = "true"

\* C30: a join or leave that fails with Exhausted keeps its table change.
\* After join_multicast_group of a new address returned Exhausted the
\* address is in the table and nothing was sent; the retry with the same
\* address returns Ok(false), transmits nothing and changes nothing, with
\* or without a TxToken.  After leave_multicast_group returned Exhausted
\* the group is out of the table and nothing was sent; the retry returns
\* Ok(false) and transmits nothing.
C30_Exhausted ==
    ilast.ret = "Exhausted" =>
        /\ ilast.op \in {"join", "leave"}
        /\ ~ilast.tx_avail
        /\ ilast.sent = << >>
        /\ LET was == \E i \in 1 .. Len(ilast.before) : ilast.before[i] = ilast.addr
               is == \E i \in 1 .. Len(ilast.after) : ilast.after[i] = ilast.addr
           IN  IF ilast.op = "join" THEN ~was /\ is ELSE was /\ ~is
        /\ groups = ilast.after
C30_Retry ==
    \A x \in BOOLEAN :
        (/\ ilast.ret = "Exhausted"
         /\ \/ ilast.op = "join" /\ joinCall(ilast.addr, x)
            \/ ilast.op = "leave" /\ leaveCall(ilast.addr, x)) =>
            /\ ilast'.ret = "Ok(false)"
            /\ ilast'.sent = << >>
            /\ emitted' = << >>
            /\ groups' = groups
C30_NoRollback == [](C30_Exhausted) /\ [][C30_Retry]_vars
\* A join of a second group got no TxToken and returned Exhausted: the
\* group is in the table and no report for it went out.
C30_Witness ==
    /\ ilast.op = "join" /\ ilast.ret = "Exhausted"
    /\ ilast.before = << "239.1.1.1" >>
    /\ groups = << "239.1.1.1", ilast.addr >>
    /\ emitted = << >>

\* The live sockets that accept a packet of the call kind: TCP sockets for
\* process_tcp, UDP and DNS sockets for process_udp.
Owners(call) ==
    {h \in Live(sockets) :
        IF call = "tcp" THEN accepts("tcp", ItemAt(sockets, h).socket)
        ELSE \/ accepts("udp", ItemAt(sockets, h).socket)
             \/ accepts("dns", ItemAt(sockets, h).socket)}

\* C27: load shedding.  process_tcp returns a RST, and process_udp an ICMP
\* port-unreachable, only when no socket present in the set accepts the
\* packet; a packet whose accepting socket was skipped because its lock
\* was held gets no such reply.
C27_Step ==
    \A t \in Threads :
        (/\ th[t].pc = "scan" /\ th'[t].pc = "idle"
         /\ th'[t].ret.kind = "fallback"
         /\ th'[t].ret.reply # << >>) =>
            Owners(th'[t].ret.call) = {}
C27_LoadShedding == [][C27_Step]_vars
\* The same for the case the claim singles out: no reply is synthesized
\* while a socket that accepts the packet is write-locked by another
\* thread.
C27_StepContended ==
    \A t \in Threads :
        (/\ th[t].pc = "scan" /\ th'[t].pc = "idle"
         /\ th'[t].ret.kind = "fallback"
         /\ th'[t].ret.reply # << >>) =>
            \A h \in Owners(th'[t].ret.call) : ItemAt(sockets, h).writers = {}
C27_Contended == [][C27_StepContended]_vars

\* C28: whenever process_tcp or process_udp invokes process on a socket
\* under the write lock, that socket accepts the packet at that moment: it
\* was not changed between the accepts test under the read guard and the
\* process call.
C28_AcceptsAtProcess ==
    \A t \in Threads :
        th[t].pc = "process" =>
            /\ th[t].idx \in Live(sockets)
            /\ accepts(th[t].loop, ItemAt(sockets, th[t].idx).socket)

\* C29 (first match wins): within one process_tcp / process_udp call of a
\* single caller, the queue_id and the protocol state of a socket change
\* only at the socket the call matched; that socket accepts the packet for
\* the loop's protocol and no live item before it in slot order does; once
\* matched the loop never examines another item and the call returns after
\* the one process; and the DNS loop of process_udp runs only when no UDP
\* socket accepts.
C29_Matched(t) == th[t].pc \in {"steer", "write", "process"}

C29_Step ==
    LET t == Caller
        h == th[t].idx
    IN  /\ \A k \in Live(sockets) \cap Live(sockets') :
              (\/ ItemAt(sockets', k).queue_id # ItemAt(sockets, k).queue_id
               \/ ItemAt(sockets', k).socket # ItemAt(sockets, k).socket)
              => /\ th[t].pc \in {"steer", "process"}
                 /\ k = h
        /\ C29_Matched(t) =>
              /\ h \in Live(sockets)
              /\ accepts(th[t].loop, ItemAt(sockets, h).socket)
              /\ \A k \in Live(sockets) :
                    k < h => ~accepts(th[t].loop, ItemAt(sockets, k).socket)
              /\ th[t].loop = "dns" =>
                    \A k \in Live(sockets) : ~accepts("udp", ItemAt(sockets, k).socket)
              /\ th'[t].pc \notin {"scan", "accepts"}
              /\ th'[t].idx = h \/ th'[t].pc = "idle"
        /\ (th[t].pc = "process" /\ th'[t] # th[t]) => th'[t].pc = "idle"

C31_IsGeneral ==
    /\ ilast.repr.kind = "MembershipQuery"
    /\ ilast.repr.group_addr = UNSPECIFIED
    /\ ilast.repr.dst_addr = MULTICAST_ALL_SYSTEMS
    /\ Len(ilast.before) >= 1
C31_IsSpecific ==
    /\ ilast.repr.kind = "MembershipQuery"
    /\ ~(/\ ilast.repr.group_addr = UNSPECIFIED
         /\ ilast.repr.dst_addr = MULTICAST_ALL_SYSTEMS)
    /\ \E i \in 1 .. Len(ilast.before) : ilast.before[i] = ilast.repr.group_addr
    /\ ilast.repr.dst_addr = ilast.repr.group_addr
C31_Report(g) ==
    [kind |-> "report", version |-> ilast.repr.version, group |-> g]
C31_Overwrite ==
    ilast.op = "process_igmp" =>
        /\ C31_IsGeneral =>
              LET interval == IF ilast.repr.version = 1 THEN IGMP_V1_INTERVAL
                              ELSE ilast.repr.max_resp_time \div (Len(ilast.before) + 1)
                  k == IF igmp_report_state.kind = "Inactive" THEN Len(groups)
                       ELSE igmp_report_state.next_index
              IN  /\ ilast.state_after =
                        [kind |-> "ToGeneralQuery", version |-> ilast.repr.version,
                         timeout |-> ilast.at + interval, interval |-> interval,
                         next_index |-> 0, group |-> "none"]
                  /\ igmp_report_state.kind \in {"ToGeneralQuery", "Inactive"}
                  /\ Len(emitted) = k
                  /\ \A i \in 1 .. Len(emitted) : emitted[i].pkt = C31_Report(groups[i])
        /\ C31_IsSpecific =>
              /\ ilast.state_after =
                    [kind |-> "ToSpecificQuery", version |-> ilast.repr.version,
                     timeout |-> ilast.at + (ilast.repr.max_resp_time \div 4),
                     interval |-> 0, next_index |-> 0,
                     group |-> ilast.repr.group_addr]
              /\ \/ igmp_report_state = ilast.state_after /\ emitted = << >>
                 \/ /\ igmp_report_state.kind = "Inactive"
                    /\ Len(emitted) = 1
                    /\ emitted[1].pkt = C31_Report(ilast.repr.group_addr)

\* A group-specific query for the first group arrived when the general
\* response had reported one of two groups; its one report went out and
\* the state is Inactive: the second group was not reported.
C31_Witness ==
    /\ ilast.op = "process_igmp" /\ C31_IsSpecific
    /\ ilast.state_before.kind = "ToGeneralQuery"
    /\ ilast.state_before.next_index = 1
    /\ Len(groups) = 2
    /\ igmp_report_state.kind = "Inactive"
    /\ Len(emitted) = 1
\* C32: report spreading.  After a version-2 general query accepted at t
\* with max_resp_time M on a table of n >= 1 groups that is left alone,
\* with interval = M div (n + 1): the k-th report goes out in a call whose
\* now is at least t + k * interval; the stored timeout is at least
\* t + (next_index + 1) * interval, never decreases and is never behind
\* the now of the igmp_egress call that stored it; a call at or after the
\* timeout that is handed a TxToken emits the next report; and when every
\* report so far went out at its deadline t + k * interval the next
\* deadline is t + (next_index + 1) * interval, so that all n reports are
\* out by t + n * interval <= t + M.
C32_Interval == ilast.repr.max_resp_time \div (Len(groups) + 1)
C32_Deadline(k) == ilast.at + k * C32_Interval
C32_OnTime == \A k \in 1 .. Len(emitted) : emitted[k].at = C32_Deadline(k)
C32_Answering == ilast.op = "process_igmp" /\ ilast.repr.version = 2
C32_Inv ==
    C32_Answering =>
        /\ \A k \in 1 .. Len(emitted) : emitted[k].at >= C32_Deadline(k)
        /\ igmp_report_state.kind = "ToGeneralQuery" =>
              /\ igmp_report_state.interval = C32_Interval
              /\ igmp_report_state.timeout >=
                    C32_Deadline(igmp_report_state.next_index + 1)
        /\ C32_OnTime =>
              /\ \A k \in 1 .. Len(emitted) :
                    emitted[k].at <= ilast.at + ilast.repr.max_resp_time
              /\ igmp_report_state.kind = "ToGeneralQuery" =>
                    igmp_report_state.timeout =
                        C32_Deadline(igmp_report_state.next_index + 1)
              /\ igmp_report_state.kind = "ToGeneralQuery"
                    => igmp_report_state.next_index = Len(emitted)
C32_Step ==
    C32_Answering =>
        /\ (/\ igmp_report_state.kind = "ToGeneralQuery"
            /\ igmp_report_state'.kind = "ToGeneralQuery") =>
               igmp_report_state'.timeout >= igmp_report_state.timeout
        /\ \A w \in Threads :
              (ith[w].pc = "matched" /\ ith'[w].pc = "idle") =>
                 /\ (/\ igmp_report_state'.kind = "ToGeneralQuery"
                     /\ igmp_report_state' # igmp_report_state) =>
                        igmp_report_state'.timeout >= ith[w].at
                 /\ (/\ egress_write(w, TRUE)
                     /\ igmp_report_state.kind = "ToGeneralQuery"
                     /\ ith[w].at >= igmp_report_state.timeout
                     /\ igmp_report_state.next_index < Len(groups)) =>
                        /\ Len(emitted') = Len(emitted) + 1
                        /\ emitted'[Len(emitted')].at = ith[w].at
C32_ReportSpreading == [](C32_Inv) /\ [][C32_Step]_vars

\* Two groups, max_resp_time 5, query accepted after time 0: both reports
\* went out at their deadlines t + 1 and t + 2 and the response is over.
C32_Witness ==
    /\ C32_Answering
    /\ ilast.at > 0
    /\ ilast.repr.max_resp_time = 5
    /\ Len(groups) = 2
    /\ Len(emitted) = 2
    /\ C32_OnTime
    /\ igmp_report_state.kind = "Inactive"
====
